---------------------------- MODULE Spec2Model ----------------------------
(***************************************************************************)
(* A model of the codebook extractor of clps_data                          *)
(* (src/survey_vars/extract_cdbk_pdf_answers.py): the per-Unit field        *)
(* locator, the answer-table extraction get_answer_fields with its totals   *)
(* check, and the module-level loop that builds the records and writes     *)
(* them to the output file.                                                 *)
(*                                                                         *)
(* Text is modelled as a sequence of atoms.  An atom is a word, a digit,    *)
(* a punctuation mark, a blank " " or a line feed "\n"; Python's str        *)
(* operations (in, strip, split, join, replace, int, float) are modelled    *)
(* on these sequences.                                                      *)
(***************************************************************************)
EXTENDS Integers, Sequences, FiniteSets, TLC

SP == " "
NL == "\n"
COLON == ":"
COMMA == ","
DOT == "."
\* The single glyph the pdf extractor produces for the letters f and i.
LIGATURE == "fi-ligature"

-----------------------------------------------------------------------------
(* Python str and list operations                                          *)

RECURSIVE SumSeq(_)
SumSeq(s) == IF s = <<>> THEN 0 ELSE Head(s) + SumSeq(Tail(s))

RECURSIVE FlatCat(_)
\* The concatenation of a sequence of sequences.
FlatCat(ss) == IF ss = <<>> THEN <<>> ELSE Head(ss) \o FlatCat(Tail(ss))

Abs(x) == IF x < 0 THEN 0 - x ELSE x

\* `sub in text`: sub is a contiguous part of text.
StrContains(text, sub) ==
    \E i \in 0..(Len(text) - Len(sub)) :
        \A j \in 1..Len(sub) : text[i + j] = sub[j]

IsSpace(a) == a \in {SP, NL}

RECURSIVE LStrip(_)
LStrip(t) == IF t # <<>> /\ IsSpace(Head(t)) THEN LStrip(Tail(t)) ELSE t

RECURSIVE RStrip(_)
RStrip(t) ==
    IF t # <<>> /\ IsSpace(t[Len(t)]) THEN RStrip(SubSeq(t, 1, Len(t) - 1)) ELSE t

\* str.strip()
Strip(t) == RStrip(LStrip(t))

RECURSIVE SplitAcc(_, _, _)
SplitAcc(t, sep, cur) ==
    IF t = <<>> THEN <<cur>>
    ELSE IF Head(t) = sep THEN <<cur>> \o SplitAcc(Tail(t), sep, <<>>)
    ELSE SplitAcc(Tail(t), sep, Append(cur, Head(t)))

\* str.split(sep): always at least one piece.
Split(t, sep) == SplitAcc(t, sep, <<>>)

RECURSIVE Join(_, _)
\* sep.join(texts)
Join(texts, sep) ==
    IF texts = <<>> THEN <<>>
    ELSE IF Len(texts) = 1 THEN texts[1]
    ELSE texts[1] \o sep \o Join(Tail(texts), sep)

split_and_strip(s, sep) ==
    LET pieces == Split(s, sep) IN [i \in 1..Len(pieces) |-> Strip(pieces[i])]

RECURSIVE ReplaceAtom(_, _, _)
\* str.replace(k, v) for a one-atom k.
ReplaceAtom(s, k, v) ==
    IF s = <<>> THEN <<>>
    ELSE (IF Head(s) = k THEN v ELSE <<Head(s)>>) \o ReplaceAtom(Tail(s), k, v)

RECURSIVE replace_characters(_, _)
\* mapper is a sequence of <<to_be_replaced, replacement>> pairs.
replace_characters(s, mapper) ==
    IF mapper = <<>> THEN s
    ELSE replace_characters(ReplaceAtom(s, mapper[1][1], mapper[1][2]), Tail(mapper))

FAULTY_CHARACTER_MAPPER == << <<LIGATURE, <<"f", "i">> >> >>
COMMA_MAPPER == << <<COMMA, <<>> >> >>

Digits == {"0", "1", "2", "3", "4", "5", "6", "7", "8", "9"}
DigitVal(d) ==
    CASE d = "0" -> 0 [] d = "1" -> 1 [] d = "2" -> 2 [] d = "3" -> 3
      [] d = "4" -> 4 [] d = "5" -> 5 [] d = "6" -> 6 [] d = "7" -> 7
      [] d = "8" -> 8 [] d = "9" -> 9

RECURSIVE DigitsVal(_)
DigitsVal(t) ==
    IF t = <<>> THEN 0 ELSE 10 * DigitsVal(SubSeq(t, 1, Len(t) - 1)) + DigitVal(t[Len(t)])

AllDigits(t) == t # <<>> /\ \A i \in 1..Len(t) : t[i] \in Digits

\* int(s) accepts a digit string (surrounding blanks allowed); anything else,
\* a thousands separator included, is a ValueError.
IntOk(s) == AllDigits(Strip(s))
IntVal(s) == DigitsVal(Strip(s))

\* float(s), in hundredths: digits with an optional fraction of at most two
\* digits (the codebook prints one).  Anything else is a ValueError.
FloatOk(s) ==
    LET p == Split(Strip(s), DOT) IN
    \/ Len(p) = 1 /\ AllDigits(p[1])
    \/ Len(p) = 2 /\ AllDigits(p[1]) /\ AllDigits(p[2]) /\ Len(p[2]) <= 2
FloatVal(s) ==
    LET p == Split(Strip(s), DOT) IN
    IF Len(p) = 1 THEN 100 * DigitsVal(p[1])
    ELSE 100 * DigitsVal(p[1])
         + (IF Len(p[2]) = 1 THEN 10 * DigitsVal(p[2]) ELSE DigitsVal(p[2]))

-----------------------------------------------------------------------------
(* Field: the label anchors (enum values) and the record keys (enum names)  *)

Field_variable_name == <<"Variable", SP, "Name", COLON>>
Field_length == <<"Length", COLON>>
Field_position == <<"Position", COLON>>
Field_question_name == <<"Question", SP, "Name", COLON>>
Field_concept == <<"Concept", COLON>>
Field_question_text == <<"Question", SP, "Text", COLON>>
Field_universe == <<"Universe", COLON>>
Field_note == <<"Note", COLON>>
Field_source == <<"Source", COLON>>
Field_answer_categories == <<"Answer", SP, "Categories">>
Field_code == <<"Code">>
Field_frequency == <<"Frequency">>
Field_weighted_frequency == <<"Weighted", SP, "Frequency">>
Field_percent == <<"%">>
Field_total == <<"Total">>

MetadataKeys ==
    {"variable_name", "length", "position", "question_name", "concept",
     "question_text", "universe", "note", "source"}
AnswerKeys ==
    {"answer_categories", "code", "frequency", "weighted_frequency", "percent",
     "total"}

TEXT_TYPE == "text"
DIVIDER_TYPE == "divider"

\* Element.__init__ and __post_init__: right and bottom are computed.
Element(elem_type, left, top, width, height, text) ==
    [elem_type |-> elem_type, left |-> left, top |-> top, width |-> width,
     height |-> height, right |-> left + width, bottom |-> top + height,
     text |-> text]

-----------------------------------------------------------------------------
(* Results of a call: a value, or the exception it raised.                  *)

Ret(v) == [raised |-> FALSE, err |-> "", val |-> v]
Raise(e) == [raised |-> TRUE, err |-> e, val |-> <<>>]

-----------------------------------------------------------------------------
(* The field locator                                                       *)

RECURSIVE FirstFrom(_, _, _)
FirstFrom(unit, text, i) ==
    IF i > Len(unit) THEN 0
    ELSE IF StrContains(unit[i].text, text) THEN i
    ELSE FirstFrom(unit, text, i + 1)

\* The index of the first Element whose text contains `text`; 0 stands for
\* the None the function returns when the loop ends without a match.
get_elem_by_text(unit, text) == FirstFrom(unit, text, 1)

\* Variant of the vertical tolerance of get_variable_name that is one wider.
NameTolSix == 5 + 1
VARIABLE_NAME_TOL == 5

get_variable_name(unit) ==
    LET li == get_elem_by_text(unit, Field_variable_name)
        ri == get_elem_by_text(unit, Field_length)
    IN  IF li = 0 \/ ri = 0 THEN Raise("AttributeError")
        ELSE LET l == unit[li].left
                 t == unit[li].top
                 r == unit[ri].left
                 hit(e) == /\ l < e.left /\ e.left < r
                           /\ t - VARIABLE_NAME_TOL < e.top
                           /\ e.top < t + VARIABLE_NAME_TOL
                 out == SelectSeq(unit, hit)
             IN  IF Len(out) = 1 THEN Ret(out[1].text)
                 ELSE Raise("AssertionError")

\* text.split(':')[1].strip() of the first Element holding the anchor.
AfterColon(unit, anchor) ==
    LET i == get_elem_by_text(unit, anchor)
    IN  IF i = 0 THEN Raise("AttributeError")
        ELSE LET pieces == Split(unit[i].text, COLON)
             IN  IF Len(pieces) < 2 THEN Raise("IndexError")
                 ELSE Ret(Strip(pieces[2]))

get_length(unit) == AfterColon(unit, Field_length)

get_position(unit) == AfterColon(unit, Field_position)

\* Variants of the offsets of get_question_thru_source: a top tolerance one
\* wider and a bottom buffer two narrower.
TopTolEleven == 10 + 1
BottomBufferEight == 10 - 2
TOP_TOL == 10
BOTTOM_BUFFER == 10
TEXT_LEFT_POS == 178
TEXT_LEFT_BUFFER == 5

\* Variant of lines 338-368 that yields the empty string when one of the
\* two anchors is not in the Unit.
get_question_thru_source_or_empty(unit, top, bottom) ==
    LET l == TEXT_LEFT_POS - TEXT_LEFT_BUFFER
        r == TEXT_LEFT_POS + TEXT_LEFT_BUFFER
        ti == get_elem_by_text(unit, top)
        bi == get_elem_by_text(unit, bottom)
    IN  IF ti = 0 \/ bi = 0 THEN Ret(<<>>)
        ELSE LET t == unit[ti].top - TOP_TOL
                 b == unit[bi].top - BOTTOM_BUFFER
                 hit(e) == t < e.top /\ e.top < b /\ l < e.left /\ e.left < r
                 sel == SelectSeq(unit, hit)
                 joined == Join([i \in 1..Len(sel) |-> sel[i].text], <<SP>>)
                 fixed == replace_characters(joined, FAULTY_CHARACTER_MAPPER)
             IN  Ret(Join(split_and_strip(fixed, NL), <<SP>>))

\* The Elements whose text the loop of lines 359-361 appends to `out`, for
\* a Unit that holds both anchors.
thru_source_out(unit, top, bottom) ==
    LET l == TEXT_LEFT_POS - TEXT_LEFT_BUFFER
        r == TEXT_LEFT_POS + TEXT_LEFT_BUFFER
        t == unit[get_elem_by_text(unit, top)].top - TOP_TOL
        b == unit[get_elem_by_text(unit, bottom)].top - BOTTOM_BUFFER
        hit(e) == t < e.top /\ e.top < b /\ l < e.left /\ e.left < r
    IN  SelectSeq(unit, hit)

get_question_thru_source(unit, top, bottom) ==
    LET ti == get_elem_by_text(unit, top)
        bi == get_elem_by_text(unit, bottom)
    IN  IF ti = 0 \/ bi = 0 THEN Raise("AttributeError")
        ELSE LET sel == thru_source_out(unit, top, bottom)
                 joined == Join([i \in 1..Len(sel) |-> sel[i].text], <<SP>>)
                 fixed == replace_characters(joined, FAULTY_CHARACTER_MAPPER)
             IN  Ret(Join(split_and_strip(fixed, NL), <<SP>>))

-----------------------------------------------------------------------------
(* get_answer_fields                                                       *)

POS_TOL == 10
POS_BUFFER == 10
FREQ_RIGHT_POS == 386
\* Variants of TOTAL_TOLS that are one step looser than the source's: a
\* frequency tolerance of 1, a weighted frequency tolerance of 2 and a
\* percent tolerance of 0.5.
FrequencyTolOne == 0 + 1
WeightedTolTwo == 1 + 1
PercentTolHalf == 5 * 10
\* TOTAL_TOLS; the percent tolerance 0.2 is in hundredths, as FloatVal is.
TOL_FREQ == 0
TOL_WEIGHTED == 1
TOL_PERC == 20

\* Items of the raw and of the flattened column lists.  A raw item is a
\* marker or the list of lines of one Element; a flattened item is a marker
\* or one str.  len() of a marker is 1.
PageBreak == [kind |-> "PageBreak", lines |-> <<>>, text |-> <<>>]
CodeElementBreak == [kind |-> "CodeElementBreak", lines |-> <<>>, text |-> <<>>]
ListItem(lines) == [kind |-> "list", lines |-> lines, text |-> <<>>]
StrItem(text) == [kind |-> "str", lines |-> <<>>, text |-> text]
IsMarker(x) == x.kind \in {"PageBreak", "CodeElementBreak"}
ItemLen(x) == IF x.kind = "list" THEN Len(x.lines) ELSE 1

\* Is Element e in the column of the heading (left, right)?  Answer
\* categories are left aligned to their heading, codes right aligned.
InTextColumn(isAns, e, left, right) ==
    IF isAns THEN left - POS_TOL < e.left /\ e.left < left + POS_TOL
    ELSE right - POS_TOL < e.right /\ e.right < right + POS_TOL

RECURSIVE TextColumnLoop(_, _, _, _, _, _, _, _)
\* Lines 464-485: the loop over the Unit for one of the two text columns.
TextColumnLoop(unit, i, hv, isAns, top, left, right, header_count) ==
    IF i > Len(unit) THEN <<>>
    ELSE LET e == unit[i]
             rest(hc) == TextColumnLoop(unit, i + 1, hv, isAns, top, left, right, hc)
         IN  IF e.top < top THEN rest(header_count)
             ELSE IF StrContains(e.text, hv)
                  THEN IF header_count = 0 THEN rest(1)
                       ELSE <<PageBreak>> \o rest(header_count + 1)
             ELSE IF InTextColumn(isAns, e, left, right)
                  THEN <<ListItem(split_and_strip(e.text, NL))>> \o rest(header_count)
             ELSE rest(header_count)

\* Lines 455-485 for one heading: the raw list of the column.
TextColumn(unit, hv, isAns) ==
    LET h == get_elem_by_text(unit, hv)
    IN  IF h = 0 THEN Raise("AttributeError")
        ELSE Ret(TextColumnLoop(unit, 1, hv, isAns, unit[h].top, unit[h].left,
                                unit[h].right, 0))

\* Variant of lines 490-499 that marks every Element boundary, page breaks
\* included.
RECURSIVE InsertCodeBreaksEverywhere(_, _)
InsertCodeBreaksEverywhere(code, i) ==
    IF i > Len(code) THEN <<>>
    ELSE (IF i > 1 THEN <<CodeElementBreak>> ELSE <<>>)
         \o <<code[i]>> \o InsertCodeBreaksEverywhere(code, i + 1)

\* Variant of lines 490-499 that also puts a CodeElementBreak before the
\* first code Element (i >= 0 in place of i > 0).
RECURSIVE InsertCodeBreaksFromFirst(_, _)
InsertCodeBreaksFromFirst(code, i) ==
    IF i > Len(code) THEN <<>>
    ELSE (IF code[i].kind # "PageBreak" /\ (i = 1 \/ code[i - 1].kind # "PageBreak")
          THEN <<CodeElementBreak>> ELSE <<>>)
         \o <<code[i]>> \o InsertCodeBreaksFromFirst(code, i + 1)

RECURSIVE InsertCodeBreaks(_, _)
\* Lines 490-496: a CodeElementBreak before every code Element that neither
\* is nor follows a PageBreak.
InsertCodeBreaks(code, i) ==
    IF i > Len(code) THEN <<>>
    ELSE (IF i > 1 /\ code[i].kind # "PageBreak" /\ code[i - 1].kind # "PageBreak"
          THEN <<CodeElementBreak>> ELSE <<>>)
         \o <<code[i]>> \o InsertCodeBreaks(code, i + 1)

\* flatten(): the lines of a list item become items of their own.
FlattenItem(x) ==
    IF x.kind = "list" THEN [j \in 1..Len(x.lines) |-> StrItem(x.lines[j])] ELSE <<x>>
flatten(lst) == FlatCat([i \in 1..Len(lst) |-> FlattenItem(lst[i])])

Min(a, b) == IF a < b THEN a ELSE b

\* Variant of lines 534-551 that keeps a matched pair of page breaks in the
\* merged lists instead of dropping it.
RECURSIVE MergeLoopKeepingBreaks(_, _, _, _, _)
MergeLoopKeepingBreaks(ans, code, i, ans_out, code_out) ==
    IF i > Min(Len(ans), Len(code)) THEN Ret([ans |-> ans_out, code |-> code_out])
    ELSE LET a == ans[i]
             c == code[i]
         IN  IF a.kind = "PageBreak" \/ c.kind = "PageBreak"
             THEN IF a.kind = "PageBreak" /\ c.kind = "PageBreak"
                  THEN MergeLoopKeepingBreaks(ans, code, i + 1,
                                              Append(ans_out, a), Append(code_out, c))
                  ELSE Raise("AssertionError")
             ELSE IF c.kind = "CodeElementBreak"
             THEN IF ans_out = <<>> THEN Raise("IndexError")
                  ELSE LET n == Len(ans_out)
                           joined == StrItem(ans_out[n].text \o <<SP>> \o a.text)
                       IN  MergeLoopKeepingBreaks(ans, code, i + 1,
                                                  [ans_out EXCEPT ![n] = joined], code_out)
             ELSE MergeLoopKeepingBreaks(ans, code, i + 1,
                                         Append(ans_out, a), Append(code_out, c))

\* Variant of lines 534-551 that skips a page break of either list without
\* asserting that the other list has one at the same index.
RECURSIVE MergeLoopUnpaired(_, _, _, _, _)
MergeLoopUnpaired(ans, code, i, ans_out, code_out) ==
    IF i > Min(Len(ans), Len(code)) THEN Ret([ans |-> ans_out, code |-> code_out])
    ELSE LET a == ans[i]
             c == code[i]
         IN  IF a.kind = "PageBreak" \/ c.kind = "PageBreak"
             THEN MergeLoopUnpaired(ans, code, i + 1, ans_out, code_out)
             ELSE IF c.kind = "CodeElementBreak"
             THEN IF ans_out = <<>> THEN Raise("IndexError")
                  ELSE LET n == Len(ans_out)
                           joined == StrItem(ans_out[n].text \o <<SP>> \o a.text)
                       IN  MergeLoopUnpaired(ans, code, i + 1,
                                             [ans_out EXCEPT ![n] = joined], code_out)
             ELSE MergeLoopUnpaired(ans, code, i + 1,
                                    Append(ans_out, a), Append(code_out, c))

RECURSIVE MergeLoop(_, _, _, _, _)
\* Lines 534-551: walk the zipped category and code items.
MergeLoop(ans, code, i, ans_out, code_out) ==
    IF i > Min(Len(ans), Len(code)) THEN Ret([ans |-> ans_out, code |-> code_out])
    ELSE LET a == ans[i]
             c == code[i]
         IN  IF a.kind = "PageBreak" \/ c.kind = "PageBreak"
             THEN IF a.kind = "PageBreak" /\ c.kind = "PageBreak"
                  THEN MergeLoop(ans, code, i + 1, ans_out, code_out)
                  ELSE Raise("AssertionError")
             ELSE IF c.kind = "CodeElementBreak"
             THEN IF ans_out = <<>> THEN Raise("IndexError")
                  ELSE LET n == Len(ans_out)
                           joined == StrItem(ans_out[n].text \o <<SP>> \o a.text)
                       IN  MergeLoop(ans, code, i + 1,
                                     [ans_out EXCEPT ![n] = joined], code_out)
             ELSE MergeLoop(ans, code, i + 1, Append(ans_out, a), Append(code_out, c))

EmptyOut ==
    [answer_categories |-> <<>>, code |-> <<>>, frequency |-> <<>>,
     weighted_frequency |-> <<>>, percent |-> <<>>]

\* Lines 446-527: the two text columns up to their flattening, the code
\* column with its CodeElementBreaks.
FlattenedColumns(unit) ==
    LET ra == TextColumn(unit, Field_answer_categories, TRUE)
        rc == TextColumn(unit, Field_code, FALSE)
    IN  IF ra.raised THEN ra
        ELSE IF rc.raised THEN rc
        ELSE LET ans == ra.val
                 code == InsertCodeBreaks(rc.val, 1)
                 a == SumSeq([i \in 1..Len(ans) |-> ItemLen(ans[i])])
                 b == SumSeq([i \in 1..Len(code) |-> ItemLen(code[i])])
             IN  IF a # b THEN Raise("AssertionError")
                 ELSE Ret([ans |-> flatten(ans), code |-> flatten(code)])

\* Lines 528-565: the merge of the flattened lists and the placing of the
\* merged lists back into `out`.
MergeStage(ans, code) ==
    LET m == MergeLoop(ans, code, 1, <<>>, <<>>)
    IN  IF m.raised THEN m
        ELSE IF Len(m.val.ans) # Len(m.val.code)
        THEN Raise("AssertionError")
        ELSE Ret([EmptyOut EXCEPT !.answer_categories = m.val.ans,
                                  !.code = m.val.code])

\* Lines 446-565: the category and code columns, from the Elements to the
\* row-aligned lists placed back into `out`.
CategoryCodeStage(unit) ==
    LET ra == TextColumn(unit, Field_answer_categories, TRUE)
        rc == TextColumn(unit, Field_code, FALSE)
    IN  IF ra.raised THEN ra
        ELSE IF rc.raised THEN rc
        ELSE LET ans == ra.val
                 code == InsertCodeBreaks(rc.val, 1)
                 a == SumSeq([i \in 1..Len(ans) |-> ItemLen(ans[i])])
                 b == SumSeq([i \in 1..Len(code) |-> ItemLen(code[i])])
             IN  IF a # b THEN Raise("AssertionError")
                 ELSE LET m == MergeLoop(flatten(ans), flatten(code), 1, <<>>, <<>>)
                      IN  IF m.raised THEN m
                          ELSE IF Len(m.val.ans) # Len(m.val.code)
                          THEN Raise("AssertionError")
                          ELSE Ret([EmptyOut EXCEPT !.answer_categories = m.val.ans,
                                                    !.code = m.val.code])

\* Is Element e in the numeric column of the heading (left, right)?  The
\* frequency column lies between the left edge of its heading and the
\* hard-coded right position; the other two are right aligned.
InNumericColumn(isFreq, e, left, right) ==
    IF isFreq THEN left < e.left /\ e.left < FREQ_RIGHT_POS - POS_BUFFER
    ELSE right - POS_TOL < e.right /\ e.right < right + POS_TOL

\* Lines 568-594 for one heading: the texts of the Elements of the column.
NumericColumn(unit, hv, isFreq) ==
    LET h == get_elem_by_text(unit, hv)
    IN  IF h = 0 THEN Raise("AttributeError")
        ELSE LET top == unit[h].top
                 hit(e) == /\ ~(e.top < top \/ StrContains(e.text, hv))
                           /\ InNumericColumn(isFreq, e, unit[h].left, unit[h].right)
                 sel == SelectSeq(unit, hit)
             IN  Ret([i \in 1..Len(sel) |-> sel[i].text])

\* Line 599 for a numeric column: split every cell text into lines, flatten.
SplitCells(v) == FlatCat([i \in 1..Len(v) |-> split_and_strip(v[i], NL)])

\* A str method called on every item of a text list (lines 599 and 621): a
\* marker has none, which is an AttributeError.
AllStr(v) == \A i \in 1..Len(v) : v[i].kind = "str"
SplitStrItems(v) ==
    FlatCat([i \in 1..Len(v) |->
        LET ls == split_and_strip(v[i].text, NL)
        IN  [j \in 1..Len(ls) |-> StrItem(ls[j])]])
MapStrItems(v, mapper) ==
    [i \in 1..Len(v) |-> StrItem(replace_characters(v[i].text, mapper))]
MapTexts(v, mapper) == [i \in 1..Len(v) |-> replace_characters(v[i], mapper)]

\* Lines 616-625: the character repair of the two text columns and the
\* removal of commas from the frequency and weighted frequency columns.
TextCleanup(out) ==
    [out EXCEPT !.answer_categories = MapStrItems(@, FAULTY_CHARACTER_MAPPER),
                !.code = MapStrItems(@, FAULTY_CHARACTER_MAPPER),
                !.frequency = MapTexts(@, COMMA_MAPPER),
                !.weighted_frequency = MapTexts(@, COMMA_MAPPER)]

ButLast(v) == SubSeq(v, 1, Len(v) - 1)

\* Lines 628-631: the last cell of each numeric list becomes the total row.
PopTotals(out) ==
    [answer_categories |-> out.answer_categories,
     code |-> out.code,
     frequency |-> ButLast(out.frequency),
     weighted_frequency |-> ButLast(out.weighted_frequency),
     percent |-> ButLast(out.percent),
     total |-> [frequency |-> out.frequency[Len(out.frequency)],
                weighted_frequency |->
                    out.weighted_frequency[Len(out.weighted_frequency)],
                percent |-> out.percent[Len(out.percent)]]]

\* Lines 635-640 for an int column: "" when the total is within tolerance,
\* else the exception.
IntTotalCheck(v, total, tol) ==
    IF ~(\A i \in 1..Len(v) : IntOk(v[i])) \/ ~IntOk(total) THEN "ValueError"
    ELSE LET s == SumSeq([i \in 1..Len(v) |-> IntVal(v[i])])
             t == IntVal(total)
             diff == Abs(s - t)
         IN  IF diff <= tol THEN "" ELSE "AssertionError"

\* Lines 635-640 for the float column; the values are in hundredths, on
\* which round(abs(s - t), 2) is exact.
FloatTotalCheck(v, total, tol) ==
    IF ~(\A i \in 1..Len(v) : FloatOk(v[i])) \/ ~FloatOk(total) THEN "ValueError"
    ELSE LET s == SumSeq([i \in 1..Len(v) |-> FloatVal(v[i])])
             t == FloatVal(total)
             diff == Abs(s - t)
         IN  IF diff <= tol THEN "" ELSE "AssertionError"

\* Lines 633-647: the totals of the three numeric columns, in order.
VerifyTotals(out) ==
    LET f == IntTotalCheck(out.frequency, out.total.frequency, TOL_FREQ)
        w == IntTotalCheck(out.weighted_frequency, out.total.weighted_frequency,
                           TOL_WEIGHTED)
        p == FloatTotalCheck(out.percent, out.total.percent, TOL_PERC)
    IN  IF f # "" THEN f ELSE IF w # "" THEN w ELSE p

\* Lines 567-649: the numeric columns, the cleanup, the total row and its
\* check; `out` holds the category and code lists of the first stage.
NumericStage(unit, out) ==
    LET rf == NumericColumn(unit, Field_frequency, TRUE)
        rw == NumericColumn(unit, Field_weighted_frequency, FALSE)
        rp == NumericColumn(unit, Field_percent, FALSE)
    IN  IF rf.raised THEN rf
        ELSE IF rw.raised THEN rw
        ELSE IF rp.raised THEN rp
        ELSE IF ~AllStr(out.code) THEN Raise("AttributeError")
        ELSE LET split == [out EXCEPT !.code = SplitStrItems(@),
                                      !.frequency = SplitCells(rf.val),
                                      !.weighted_frequency = SplitCells(rw.val),
                                      !.percent = SplitCells(rp.val)]
                 n_elems == {Len(split.frequency), Len(split.weighted_frequency),
                             Len(split.percent)}
             IN  IF Cardinality(n_elems) # 1 THEN Raise("AssertionError")
                 ELSE IF ~AllStr(split.answer_categories) THEN Raise("AttributeError")
                 ELSE IF Len(split.frequency) = 0 THEN Raise("IndexError")
                 ELSE LET popped == PopTotals(TextCleanup(split))
                          v == VerifyTotals(popped)
                      IN  IF v # "" THEN Raise(v) ELSE Ret(popped)

get_answer_fields(unit) ==
    LET s1 == CategoryCodeStage(unit)
    IN  IF s1.raised THEN s1 ELSE NumericStage(unit, s1.val)

-----------------------------------------------------------------------------
(* The input: printed pages of the codebook as the pdf-to-html converter    *)
(* renders them.  A printed answer table is a sequence of lines; the        *)
(* converter makes one Element of every maximal run of consecutive lines    *)
(* that have a cell in a column, or one Element per line.                   *)

\* Bounds of the model.
MaxLines == 4
MaxUnits == 2

\* The kinds of printed line of an answer table:
\*   row       a category label, its code and its three numeric cells
\*   rowNoNum  a row whose three numeric cells are blank
\*   rowNoPct  a row whose percent cell is blank
\*   wrap      the second line of a category label: no code, no numbers
\*   headBoth  the column headings repeated at a page continuation
\*   headAns   only the Answer Categories heading repeated
\*   headCode  only the Code heading repeated
\*   total     the total row: a label and the three totals
RowKinds == {"row", "rowNoNum", "rowNoPct"}
LineKinds == RowKinds \cup {"wrap", "headBoth", "headAns", "headCode"}

\* How the converter cuts the columns into Elements.
SplitKinds == {"merged", "catSplit", "allSplit"}

DigitAtoms == <<"0", "1", "2", "3", "4", "5", "6", "7", "8", "9">>

RECURSIVE IntText(_)
\* The decimal digits of n >= 0.
IntText(n) ==
    IF n < 10 THEN <<DigitAtoms[n + 1]>>
    ELSE Append(IntText(n \div 10), DigitAtoms[(n % 10) + 1])

RECURSIVE Printed(_)
\* n as the codebook prints it, with thousands separators.
Printed(n) ==
    IF n < 1000 THEN IntText(n)
    ELSE LET r == n % 1000
             pad == IF r < 10 THEN <<"0", "0">> ELSE IF r < 100 THEN <<"0">> ELSE <<>>
         IN  Printed(n \div 1000) \o <<COMMA>> \o pad \o IntText(r)

\* A percentage given in hundredths, printed with one fractional digit.
PrintedPct(h) == Printed(h \div 100) \o <<DOT>> \o IntText((h % 100) \div 10)

\* The numbers printed in the j-th row that has numeric cells.
RowFreq == <<108, 416, 20018, 628, 7>>
RowWeighted == <<5400, 20811, 1000900, 31400, 350>>
RowPct == <<50, 200, 9460, 290, 10>>
RowNum(tbl, j) == tbl[((j - 1) % Len(tbl)) + 1]

\* By how much the printed totals differ from the sums of the printed rows
\* (dF, dW, dP; percent in hundredths), and by how much the first printed
\* percentage and with it the total exceed the table's (bP): 1,000.0 makes
\* the cells of the percent column carry a thousands separator.
Consistent == [dF |-> 0, dW |-> 0, dP |-> 0, bP |-> 0]
LargePercent == [Consistent EXCEPT !.bP = 100000]
Profiles ==
    { Consistent,
      [Consistent EXCEPT !.dF = 1],
      [Consistent EXCEPT !.dW = 1, !.dP = 20],
      [Consistent EXCEPT !.dW = -1, !.dP = -20],
      [Consistent EXCEPT !.dW = 2],
      [Consistent EXCEPT !.dP = 30],
      LargePercent }

LabelAtoms == <<"L1", "L2", "L3", "L4", "L5", "L6">>
LabelText(k) == <<"label", SP, LabelAtoms[k]>>
CodeText(r) == <<"0", DigitAtoms[r + 1]>>

Columns == <<"cat", "lab", "code", "freq", "wt", "pct">>

\* The lines of the page with the total row after them.
Grid(page) == Append(page.lines, "total")

CountTo(g, k, S) == Cardinality({i \in 1..k : g[i] \in S})

\* Has line k of the grid a cell in column c?
HasCell(g, c, k) ==
    CASE c = "cat" -> g[k] \in RowKinds \cup {"wrap"}
      [] c = "lab" -> g[k] = "total"
      [] c = "code" -> g[k] \in RowKinds
      [] c = "freq" -> g[k] \in {"row", "rowNoPct", "total"}
      [] c = "wt" -> g[k] \in {"row", "rowNoPct", "total"}
      [] c = "pct" -> g[k] \in {"row", "total"}

NumRowsTo(g, c, k) ==
    IF c = "pct" THEN CountTo(g, k, {"row"}) ELSE CountTo(g, k, {"row", "rowNoPct"})

NumTable(c) == IF c = "freq" THEN RowFreq ELSE IF c = "wt" THEN RowWeighted ELSE RowPct
Delta(page, c) ==
    IF c = "freq" THEN page.profile.dF
    ELSE IF c = "wt" THEN page.profile.dW ELSE page.profile.dP

\* The value printed in numeric column c on line k.
NumValue(page, c, k) ==
    LET g == Grid(page)
        n == NumRowsTo(g, c, k)
        base(j) == IF c = "pct" /\ j = 1 THEN page.profile.bP ELSE 0
        sum == SumSeq([j \in 1..n |-> RowNum(NumTable(c), j) + base(j)])
    IN  IF g[k] = "total"
        THEN (IF sum + Delta(page, c) < 0 THEN sum ELSE sum + Delta(page, c))
        ELSE RowNum(NumTable(c), n) + base(n)

\* The text printed in column c on line k.
CellText(page, c, k) ==
    CASE c = "cat" -> LabelText(k)
      [] c = "lab" -> Field_total
      [] c = "code" -> CodeText(CountTo(Grid(page), k, RowKinds))
      [] c = "pct" -> PrintedPct(NumValue(page, c, k))
      [] OTHER -> Printed(NumValue(page, c, k))

\* Does the converter cut column c into one Element per line?
CutsPerLine(page, c) ==
    CASE page.split = "merged" -> FALSE
      [] page.split = "catSplit" -> c # "code"
      [] page.split = "allSplit" -> TRUE

StartsElement(page, c, k) ==
    LET g == Grid(page)
    IN  HasCell(g, c, k) /\ (k = 1 \/ ~HasCell(g, c, k - 1) \/ CutsPerLine(page, c))

RECURSIVE LastLine(_, _, _)
\* The last line of the Element of column c that starts on line k.
LastLine(page, c, k) ==
    LET g == Grid(page)
    IN  IF k < Len(g) /\ HasCell(g, c, k + 1) /\ ~CutsPerLine(page, c)
        THEN LastLine(page, c, k + 1) ELSE k

\* The geometry of the printed page, in pixels.
Geometry == [line_height |-> 15, table_top |-> 400, meta_top |-> 100, meta_step |-> 30]
LINE_HEIGHT == Geometry.line_height
TableTop == Geometry.table_top
ColLeft(c) ==
    CASE c = "cat" -> 36 [] c = "lab" -> 250 [] c = "code" -> 315
      [] c = "freq" -> 360 [] c = "wt" -> 440 [] c = "pct" -> 530
ColWidth(c) ==
    CASE c = "cat" -> 120 [] c = "lab" -> 30 [] c = "code" -> 15
      [] c = "freq" -> 26 [] c = "wt" -> 40 [] c = "pct" -> 22
LineTop(k) == TableTop + LINE_HEIGHT * k

CellElement(page, c, k) ==
    LET m == LastLine(page, c, k)
        text == Join([j \in 1..(m - k + 1) |-> CellText(page, c, k + j - 1)], <<NL>>)
    IN  Element(TEXT_TYPE, ColLeft(c), LineTop(k), ColWidth(c),
                LINE_HEIGHT * (m - k + 1), text)

\* The four heading Elements: frequency and weighted frequency share one.
HeadAns(top) == Element(TEXT_TYPE, 36, top, 100, LINE_HEIGHT, Field_answer_categories)
HeadCode(top) == Element(TEXT_TYPE, 300, top, 30, LINE_HEIGHT, Field_code)
HeadFreq(top) ==
    Element(TEXT_TYPE, 345, top, 135, LINE_HEIGHT,
            Field_frequency \o <<SP>> \o Field_weighted_frequency)
HeadPct(top) == Element(TEXT_TYPE, 540, top, 12, LINE_HEIGHT, Field_percent)

HeadingElements(kind, top) ==
    CASE kind = "headBoth" -> <<HeadAns(top), HeadCode(top), HeadFreq(top), HeadPct(top)>>
      [] kind = "headAns" -> <<HeadAns(top)>>
      [] kind = "headCode" -> <<HeadCode(top)>>

\* The Elements that start on line k, left to right.
LineElements(page, k) ==
    LET g == Grid(page)
    IN  IF g[k] \in {"headBoth", "headAns", "headCode"}
        THEN HeadingElements(g[k], LineTop(k))
        ELSE FlatCat([ci \in 1..Len(Columns) |->
                 IF StartsElement(page, Columns[ci], k)
                 THEN <<CellElement(page, Columns[ci], k)>> ELSE <<>>])

\* The Elements of a printed answer table, sorted by top, then left.
TableElements(page) ==
    HeadingElements("headBoth", LineTop(0))
    \o FlatCat([k \in 1..Len(Grid(page)) |-> LineElements(page, k)])

\* The label block printed above the answer table of a variable.  `name`
\* is the variable's name; `source` tells whether the "Source:" label is
\* printed.
MetaRowTop(r) == Geometry.meta_top + Geometry.meta_step * r
LabelElement(r, anchor) == Element(TEXT_TYPE, 36, MetaRowTop(r), 90, LINE_HEIGHT, anchor)
ValueElement(r, text) == Element(TEXT_TYPE, 178, MetaRowTop(r), 300, LINE_HEIGHT, text)

MetaElements(meta) ==
    << LabelElement(0, Field_variable_name),
       Element(TEXT_TYPE, 178, MetaRowTop(0), 60, LINE_HEIGHT, <<meta.name>>),
       Element(TEXT_TYPE, 300, MetaRowTop(0), 60, LINE_HEIGHT,
               Field_length \o <<SP, "8">>),
       Element(TEXT_TYPE, 450, MetaRowTop(0), 60, LINE_HEIGHT,
               Field_position \o <<SP, "1">>),
       LabelElement(1, Field_question_name), ValueElement(1, <<"Q01">>),
       LabelElement(2, Field_concept), ValueElement(2, <<"Legal", SP, "problems">>),
       LabelElement(3, Field_question_text),
       ValueElement(3, <<"Did", SP, "you", NL, "have", SP, "a", SP, "con", LIGATURE, "ct">>),
       LabelElement(4, Field_universe), ValueElement(4, <<"All", SP, "respondents">>),
       LabelElement(5, Field_note) >>
    \o (IF meta.source
        THEN <<LabelElement(6, Field_source), ValueElement(6, <<"Survey">>)>>
        ELSE <<>>)

VarNames == {"PUMFID", "AGEGRPP"}
Metas == [name : VarNames, source : BOOLEAN]
PlainMeta == [name |-> "AGEGRPP", source |-> TRUE]

\* The printed answer tables of the model: every sequence of at most
\* MaxLines lines that starts with an ordinary row; the columns merged
\* into Elements with each profile of totals, or cut each way with
\* consistent totals.
RECURSIVE LineSeqs(_)
LineSeqs(n) ==
    IF n = 1 THEN {<<"row">>}
    ELSE LET shorter == LineSeqs(n - 1)
         IN  shorter \cup {Append(ls, k) : ls \in {x \in shorter : Len(x) = n - 1},
                                            k \in LineKinds}
Variants ==
    {[split |-> "merged", profile |-> p] : p \in Profiles}
    \cup {[split |-> sk, profile |-> Consistent] : sk \in SplitKinds}
Pages ==
    {[lines |-> ls, split |-> v.split, profile |-> v.profile] :
        ls \in LineSeqs(MaxLines), v \in Variants}

\* The Unit of a variable: its label block, then its answer table if any.
UnitOf(meta, hasTable, page) ==
    MetaElements(meta) \o (IF hasTable THEN TableElements(page) ELSE <<>>)

\* The pre-sorting of lines 227-228: by top, ties by left.
IsSorted(unit) ==
    \A i \in 1..(Len(unit) - 1) :
        \/ unit[i].top < unit[i + 1].top
        \/ unit[i].top = unit[i + 1].top /\ unit[i].left <= unit[i + 1].left

-----------------------------------------------------------------------------
(* The state                                                               *)

VARIABLES
    page,         \* the printed answer table the Unit under extraction renders
    unit,         \* the Unit passed to get_answer_fields
    pc,           \* where the call is: "call", "flattened", "merged", "returned",
                  \* "raised"
    out,          \* get_answer_fields' dict `out`
    err,          \* the exception that ended the call or the run, "" if none
    units,        \* the script's list of Units
    debug_mode,   \* args.debug
    questions,    \* the script's list of records, one dict per Unit
    idx,          \* the number of Units the loop has taken up
    step,         \* where the script is: "units", "loop", "debug", "write",
                  \* "done", "aborted"
    output,       \* what has been written to the output path, write by write
    debug_files,  \* the side files written so far
    sv_raw,       \* the record a _SurveyVar is constructed from
    sv_obj,       \* the result of the construction: the object or the exception
    sv_pc,        \* "new", "built", "called"
    sv_call,      \* the method called on the object and its arguments
    sv_res,       \* what the call returned or raised
    elements,     \* the sorted Element list passed to group_elements
    grp_units,    \* group_elements' local list `units`
    current_unit, \* group_elements' local `current_unit`
    grp_i,        \* the number of Elements the for loop has taken up
    grp_pc,       \* "loop", "returned"
    tf_df,        \* the respondent table passed to transform_data
    tf_args,      \* the arguments of transform_data consumed so far
    tf_cur,       \* the dataframe `df` as the pipeline rebinds it
    tf_pc,        \* the pipeline stage reached: "start", "region", "columns",
                  \* "categorical", "skips", "done"
    doc,          \* the children of the body of the codebook HTML
    soup,         \* the children of `soup` as the script rebinds and trims it
    win_pc,       \* "start", "window", "hlines", "headers", "done", "raised"
    win_err,      \* the exception that ended the selection, "" if none
    loc_unit,     \* the Unit a function of the field locator is called on
    loc_call,     \* the function called and its anchors
    loc_res,      \* what the call returned or raised
    loc_pc        \* "new", "called"

vars == <<page, unit, pc, out, err, units, debug_mode, questions, idx, step, output,
          debug_files, sv_raw, sv_obj, sv_pc, sv_call, sv_res,
          elements, grp_units, current_unit, grp_i, grp_pc,
          tf_df, tf_args, tf_cur, tf_pc, doc, soup, win_pc, win_err,
          loc_unit, loc_call, loc_res, loc_pc>>
callVars == <<page, unit, pc, out>>
runVars == <<units, debug_mode, questions, idx, step, output, debug_files>>
lookupVars == <<sv_raw, sv_obj, sv_pc, sv_call, sv_res>>
groupVars == <<elements, grp_units, current_unit, grp_i, grp_pc>>
transformVars == <<tf_df, tf_args, tf_cur, tf_pc>>
windowVars == <<doc, soup, win_pc, win_err>>
locateVars == <<loc_unit, loc_call, loc_res, loc_pc>>
libVars == <<lookupVars, groupVars, transformVars, windowVars, locateVars>>

\* No _SurveyVar is under construction.
IdleLookup ==
    /\ sv_raw = <<>>
    /\ sv_obj = <<>>
    /\ sv_pc = "idle"
    /\ sv_call = <<>>
    /\ sv_res = <<>>

\* group_elements is not running.
IdleGroup ==
    /\ elements = <<>>
    /\ grp_units = <<>>
    /\ current_unit = <<>>
    /\ grp_i = 0
    /\ grp_pc = "idle"

\* transform_data is not running.
IdleTransform ==
    /\ tf_df = <<>>
    /\ tf_args = <<>>
    /\ tf_cur = <<>>
    /\ tf_pc = "idle"

\* The page window is not being selected.
IdleWindow ==
    /\ doc = <<>>
    /\ soup = <<>>
    /\ win_pc = "idle"
    /\ win_err = ""

\* No function of the field locator is being called on its own.
IdleLocate ==
    /\ loc_unit = <<>>
    /\ loc_call = <<>>
    /\ loc_res = <<>>
    /\ loc_pc = "idle"

IdleLib == IdleLookup /\ IdleGroup /\ IdleTransform /\ IdleWindow /\ IdleLocate

-----------------------------------------------------------------------------
(* One call of get_answer_fields on the Unit of a printed table             *)

NoPage == [lines |-> <<"row">>, split |-> "merged", profile |-> Consistent]

IdleRun ==
    /\ units = <<>>
    /\ debug_mode = FALSE
    /\ questions = <<>>
    /\ idx = 0
    /\ step = "idle"
    /\ output = <<>>
    /\ debug_files = {}

InitCall ==
    /\ page \in Pages
    /\ unit = UnitOf(PlainMeta, TRUE, page)
    /\ pc = "call"
    /\ out = EmptyOut
    /\ err = ""
    /\ IdleRun
    /\ IdleLib

\* Lines 446-527: the two text columns are read, the code column gets its
\* CodeElementBreaks, the lengths are compared and both lists are flattened
\* into `out`.
FlattenColumns ==
    /\ pc = "call"
    /\ LET r == FlattenedColumns(unit)
       IN  IF r.raised
           THEN pc' = "raised" /\ err' = r.err /\ out' = out
           ELSE /\ pc' = "flattened"
                /\ err' = err
                /\ out' = [out EXCEPT !.answer_categories = r.val.ans,
                                      !.code = r.val.code]
    /\ UNCHANGED <<page, unit>>
    /\ UNCHANGED <<runVars, libVars>>

\* Lines 528-565: the merge loop; when it raises `out` still holds the
\* flattened lists.
MergeColumns ==
    /\ pc = "flattened"
    /\ LET r == MergeStage(out.answer_categories, out.code)
       IN  IF r.raised
           THEN pc' = "raised" /\ err' = r.err /\ out' = out
           ELSE pc' = "merged" /\ err' = err /\ out' = r.val
    /\ UNCHANGED <<page, unit>>
    /\ UNCHANGED <<runVars, libVars>>

\* Lines 567-649.
ExtractNumeric ==
    /\ pc = "merged"
    /\ LET r == NumericStage(unit, out)
       IN  IF r.raised
           THEN pc' = "raised" /\ err' = r.err /\ out' = out
           ELSE pc' = "returned" /\ err' = err /\ out' = r.val
    /\ UNCHANGED <<page, unit>>
    /\ UNCHANGED <<runVars, libVars>>

NextCall == FlattenColumns \/ MergeColumns \/ ExtractNumeric

SpecAnswers == InitCall /\ [][NextCall]_vars

-----------------------------------------------------------------------------
(* The script: the loop over the Units and the writing of the output        *)

\* Variant of line 654 that leaves PUMFID out of the list.
NonQuestionVarsWithoutPumfid == {<<"WTPP">>, <<"VERDATE">>}
NON_QUESTION_VARS == {<<"PUMFID">>, <<"WTPP">>, <<"VERDATE">>}

EmptyDict == [k \in {} |-> <<>>]
\* q[k] = v
DictSet(q, k, v) == (k :> v) @@ q

\* Lines 657-669: the eight assignments every Unit gets, in order.
MetaSteps(u) ==
    << <<"variable_name", get_variable_name(u)>>,
       <<"length", get_length(u)>>,
       <<"position", get_position(u)>>,
       <<"question_name",
         get_question_thru_source(u, Field_question_name, Field_concept)>>,
       <<"concept", get_question_thru_source(u, Field_concept, Field_question_text)>>,
       <<"question_text",
         get_question_thru_source(u, Field_question_text, Field_universe)>>,
       <<"universe", get_question_thru_source(u, Field_universe, Field_note)>>,
       <<"note", get_question_thru_source(u, Field_note, Field_source)>> >>

\* The assignments up to the first call that raises: q gets the keys of
\* the calls before it.
Assign(q, steps) ==
    LET bad == {i \in 1..Len(steps) : steps[i][2].raised}
        stop == IF bad = {} THEN Len(steps) + 1
                ELSE CHOOSE i \in bad : \A j \in bad : i <= j
        new == [k \in {steps[i][1] : i \in 1..(stop - 1)} |->
                   LET i == CHOOSE j \in 1..(stop - 1) : steps[j][1] = k
                   IN  steps[i][2].val]
    IN  IF bad = {} THEN [raised |-> FALSE, err |-> "", q |-> new @@ q]
        ELSE [raised |-> TRUE, err |-> steps[stop][2].err, q |-> new @@ q]

\* Lines 670-673: the source and the answer table of a question variable.
AnswerSteps(u, q) ==
    LET src == get_question_thru_source(u, Field_source, Field_answer_categories)
        ans == get_answer_fields(u)
    IN  IF src.raised THEN [raised |-> TRUE, err |-> src.err, q |-> q]
        ELSE IF ans.raised
        THEN [raised |-> TRUE, err |-> ans.err, q |-> DictSet(q, "source", src.val)]
        ELSE [raised |-> FALSE, err |-> "", q |-> ans.val @@ DictSet(q, "source", src.val)]

\* Variant of line 670 that decides by the presence of the "Answer
\* Categories" anchor in the Unit instead of by the variable name.
ProcessUnitByAnchor(u, q) ==
    LET m == Assign(q, MetaSteps(u))
    IN  IF m.raised THEN m
        ELSE IF get_elem_by_text(u, Field_answer_categories) # 0 THEN AnswerSteps(u, m.q)
        ELSE m

\* Lines 656-677: the body of the loop for one Unit and its dict q.
ProcessUnit(u, q) ==
    LET m == Assign(q, MetaSteps(u))
    IN  IF m.raised THEN m
        ELSE IF m.q["variable_name"] \notin NON_QUESTION_VARS THEN AnswerSteps(u, m.q)
        ELSE m

\* The Units of the model: a label block with or without the "Source:"
\* label, named as a question variable or as a non-question variable, with
\* no answer table, a consistent one or one whose total is off; a question
\* variable with the faulty ligature in its print; and the empty Unit.
GoodPage == [lines |-> <<"row", "wrap", "row">>, split |-> "merged", profile |-> Consistent]
BadPage == [GoodPage EXCEPT !.profile = [Consistent EXCEPT !.dF = 1]]
\* Where the converter may have left the faulty ligature in the print of a
\* question variable: at the end of the text of the Element that starts at
\* (left, top).
LigatureSpots == {"name", "length", "category", "frequency"}
SpotLeft(s) ==
    CASE s = "name" -> 178 [] s = "length" -> 300
      [] s = "category" -> ColLeft("cat") [] s = "frequency" -> ColLeft("freq")
SpotTop(s) == IF s \in {"name", "length"} THEN MetaRowTop(0) ELSE LineTop(1)
WithLigature(u, s) ==
    [i \in 1..Len(u) |->
        IF u[i].left = SpotLeft(s) /\ u[i].top = SpotTop(s)
        THEN [u[i] EXCEPT !.text = Append(@, LIGATURE)] ELSE u[i]]
LigatureUnits == {WithLigature(UnitOf(PlainMeta, TRUE, GoodPage), s) : s \in LigatureSpots}

RunUnits ==
    {UnitOf(m, FALSE, NoPage) : m \in Metas}
    \cup {UnitOf(m, TRUE, pg) : m \in Metas, pg \in {GoodPage, BadPage}}
    \cup LigatureUnits
    \cup {<<>>}

RECURSIVE Docs(_)
Docs(n) ==
    IF n = 0 THEN {<<>>}
    ELSE LET shorter == Docs(n - 1)
         IN  shorter \cup {Append(d, u) : d \in {x \in shorter : Len(x) = n - 1},
                                           u \in RunUnits}

IdleCall ==
    /\ page = NoPage
    /\ unit = <<>>
    /\ pc = "idle"
    /\ out = EmptyOut

\* The state after line 265, units = group_elements(elements).
InitRun ==
    /\ units \in Docs(MaxUnits)
    /\ debug_mode \in BOOLEAN
    /\ debug_files = IF debug_mode THEN {"debug_elements.txt"} ELSE {}
    /\ questions = <<>>
    /\ idx = 0
    /\ step = "units"
    /\ output = <<>>
    /\ err = ""
    /\ IdleCall
    /\ IdleLib

\* Lines 267-273: the debug dump of units[1], then the list of empty dicts.
DebugUnits ==
    /\ step = "units"
    /\ IF debug_mode /\ Len(units) < 2
       THEN /\ step' = "aborted"
            /\ err' = "IndexError"
            /\ UNCHANGED <<questions, debug_files>>
       ELSE /\ step' = "loop"
            /\ questions' = [i \in 1..Len(units) |-> EmptyDict]
            /\ debug_files' = IF debug_mode THEN debug_files \cup {"debug_elements.txt"}
                              ELSE debug_files
            /\ err' = err
    /\ UNCHANGED <<units, debug_mode, idx, output>>
    /\ UNCHANGED <<callVars, libVars>>

\* Variant of lines 655-677 that swallows the exception of a Unit and goes
\* on with the next one.
LoopIterationContinuing ==
    /\ step = "loop"
    /\ idx < Len(units)
    /\ LET r == ProcessUnit(units[idx + 1], questions[idx + 1])
       IN  questions' = [questions EXCEPT ![idx + 1] = r.q]
    /\ idx' = idx + 1
    /\ UNCHANGED <<units, debug_mode, output, debug_files, step, err>>
    /\ UNCHANGED <<callVars, libVars>>

\* Lines 655-677: one iteration of the loop over zip(units, questions).  An
\* exception is re-raised as Exception(...) from e, which ends the script;
\* err keeps the cause e.
LoopIteration ==
    /\ step = "loop"
    /\ idx < Len(units)
    /\ LET r == ProcessUnit(units[idx + 1], questions[idx + 1])
       IN  /\ questions' = [questions EXCEPT ![idx + 1] = r.q]
           /\ IF r.raised THEN step' = "aborted" /\ err' = r.err
              ELSE step' = step /\ err' = err
    /\ idx' = idx + 1
    /\ UNCHANGED <<units, debug_mode, output, debug_files>>
    /\ UNCHANGED <<callVars, libVars>>

\* Lines 680-698: the debug dumps of the records, after the loop.
DebugQuestions ==
    /\ step = "loop"
    /\ idx = Len(units)
    /\ step' = "write"
    /\ debug_files' = IF debug_mode
                      THEN debug_files \cup {"debug_questions.txt", "debug_answers.txt"}
                      ELSE debug_files
    /\ UNCHANGED <<units, debug_mode, questions, idx, output, err>>
    /\ UNCHANGED <<callVars, libVars>>

\* Lines 700-702: json.dump(questions) to the output path.
WriteOutput ==
    /\ step = "write"
    /\ output' = Append(output, questions)
    /\ step' = "done"
    /\ UNCHANGED <<units, debug_mode, questions, idx, err, debug_files>>
    /\ UNCHANGED <<callVars, libVars>>

NextRun == DebugUnits \/ LoopIteration \/ DebugQuestions \/ WriteOutput

SpecRun == InitRun /\ [][NextRun]_vars

-----------------------------------------------------------------------------
(* Properties of get_answer_fields, checked under SpecAnswers              *)

IntSum(v) == SumSeq([i \in 1..Len(v) |-> IntVal(v[i])])
FloatSum(v) == SumSeq([i \in 1..Len(v) |-> FloatVal(v[i])])
Texts(items) == [i \in 1..Len(items) |-> items[i].text]
HasLine(kind) == \E k \in 1..Len(page.lines) : page.lines[k] = kind

\* C1: whenever get_answer_fields returns, answer_categories, code,
\* frequency, weighted_frequency and percent have the same length.
C1_EqualLengths ==
    pc = "returned" =>
        /\ Len(out.answer_categories) = Len(out.code)
        /\ Len(out.code) = Len(out.frequency)
        /\ Len(out.frequency) = Len(out.weighted_frequency)
        /\ Len(out.weighted_frequency) = Len(out.percent)

\* C2: whenever get_answer_fields returns, the sum of the int-converted
\* frequency list equals the int-converted total.frequency; a table whose
\* printed total differs from the sum of its printed rows never returns.
C2_FrequencyTotalExact ==
    pc = "returned" =>
        /\ IntSum(out.frequency) = IntVal(out.total.frequency)
        /\ page.profile.dF = 0

C2_Witness ==
    /\ pc = "returned"
    /\ Len(out.frequency) >= 3
    /\ \E k \in 1..Len(page.lines) : page.lines[k] = "headBoth"

\* C3: whenever get_answer_fields returns, the sum of the int-converted
\* weighted_frequency list is within 1 of the int-converted
\* total.weighted_frequency; a printed difference of 2 or more never returns.
C3_WeightedTotalWithinOne ==
    pc = "returned" =>
        /\ Abs(IntSum(out.weighted_frequency) - IntVal(out.total.weighted_frequency)) <= 1
        /\ Abs(page.profile.dW) <= 1

C3_Witness ==
    /\ pc = "returned"
    /\ Len(out.weighted_frequency) >= 2
    /\ Abs(IntSum(out.weighted_frequency) - IntVal(out.total.weighted_frequency)) = 1

\* C4: whenever get_answer_fields returns, the sum of the percent list is
\* within 0.2 of total.percent (20 hundredths); a larger printed difference
\* never returns.
C4_PercentTotalWithinTolerance ==
    pc = "returned" =>
        /\ Abs(FloatSum(out.percent) - FloatVal(out.total.percent)) <= 20
        /\ Abs(page.profile.dP) <= 20

C4_Witness ==
    /\ pc = "returned"
    /\ Len(out.percent) >= 2
    /\ Abs(FloatSum(out.percent) - FloatVal(out.total.percent)) = 20

\* The printed rows of the page: the lines on which a row starts.
RowLines(lines) == SelectSeq([k \in 1..Len(lines) |-> k], LAMBDA k : lines[k] \in RowKinds)
\* The label of the row that starts on line k, its fragments joined by a blank.
RowLabel(lines, k) ==
    IF k < Len(lines) /\ lines[k + 1] = "wrap"
    THEN LabelText(k) \o <<SP>> \o LabelText(k + 1) ELSE LabelText(k)
ExpectedCategories(lines) ==
    LET rows == RowLines(lines) IN [i \in 1..Len(rows) |-> RowLabel(lines, rows[i])]
ExpectedCodes(lines) ==
    LET rows == RowLines(lines) IN [i \in 1..Len(rows) |-> CodeText(i)]

\* A table as C5 describes it: complete rows with consistent totals, labels
\* of one or two lines, the headings repeated together, and the code column
\* cut into Elements only where a line has no code.
WrapTable ==
    /\ \A k \in 1..Len(page.lines) : page.lines[k] \in {"row", "wrap", "headBoth"}
    /\ \A k \in 1..Len(page.lines) : page.lines[k] = "wrap" => page.lines[k - 1] = "row"
    /\ page.split \in {"merged", "catSplit"}
    /\ page.profile = Consistent
\* Every wrapped label is followed by the next row before any repeated
\* heading and before the end of the table.
WrapsFollowedByRow ==
    \A k \in 1..Len(page.lines) :
        page.lines[k] = "wrap" => k < Len(page.lines) /\ page.lines[k + 1] = "row"

ExtractsEveryRow ==
    /\ pc # "raised"
    /\ Texts(out.answer_categories) = ExpectedCategories(page.lines)
    /\ Texts(out.code) = ExpectedCodes(page.lines)

\* C5 as stated: for a table of N rows in which any label may wrap onto a
\* second line and the headings may be repeated, get_answer_fields returns
\* the N joined labels and the N codes, in order.
C5_AnyLabelMayWrap ==
    (pc \in {"merged", "returned", "raised"} /\ WrapTable) => ExtractsEveryRow

\* C5 as amended: the same, for tables in which every wrapped label is
\* followed by another row before the next repeated heading or the end of
\* the table.
C5_WrapFollowedByRow ==
    (pc \in {"merged", "returned", "raised"} /\ WrapTable /\ WrapsFollowedByRow)
        => ExtractsEveryRow

C5_Witness ==
    /\ pc = "returned"
    /\ WrapTable /\ WrapsFollowedByRow
    /\ HasLine("wrap") /\ HasLine("headBoth")
    /\ Len(out.code) = 2

\* C6: no PageBreak and no CodeElementBreak is in the answer_categories or
\* code list that the merge places into `out`, nor in the lists returned.
C6_NoMarkers ==
    pc \in {"merged", "returned"} =>
        /\ \A i \in 1..Len(out.answer_categories) : ~IsMarker(out.answer_categories[i])
        /\ \A i \in 1..Len(out.code) : ~IsMarker(out.code[i])

C6_Witness ==
    /\ pc = "returned"
    /\ HasLine("wrap") /\ HasLine("headBoth")
    /\ page.split = "catSplit"

IsPageBreak(x) == x.kind = "PageBreak"
IsCodeBreak(x) == x.kind = "CodeElementBreak"
\* Exactly one of the two items at index i is a page break.
MismatchAt(ans, code, i) == IsPageBreak(ans[i]) # IsPageBreak(code[i])
\* The two items at index i make a regular row.
RegularAt(ans, code, i) ==
    ~IsPageBreak(ans[i]) /\ ~IsPageBreak(code[i]) /\ ~IsCodeBreak(code[i])
RegularCodes(ans, code) ==
    LET rows == SelectSeq([i \in 1..Len(code) |-> i], LAMBDA i : RegularAt(ans, code, i))
    IN  [k \in 1..Len(rows) |-> code[rows[k]].text]
\* The merge loop is about to walk the flattened lists held by `out`.
AtMerge == pc = "flattened"
\* The merge loop has raised: `out` still holds the flattened lists.
MergeRaised == pc = "raised" /\ \E i \in 1..Len(out.code) : IsMarker(out.code[i])

\* C27: in the merge, a page break at index i of one list is matched by a
\* page break at index i of the other: the lists are equally long, when
\* exactly one of the two items at some index is a page break
\* get_answer_fields raises, and otherwise every matched pair is dropped,
\* the codes merged being those of the regular rows.
C27_PageBreaksPaired ==
    [][AtMerge =>
          /\ Len(out.answer_categories) = Len(out.code)
          /\ IF \E i \in 1..Len(out.code) : MismatchAt(out.answer_categories, out.code, i)
             THEN pc' = "raised" /\ err' = "AssertionError"
             ELSE /\ pc' = "merged"
                  /\ Texts(out'.code) = RegularCodes(out.answer_categories, out.code)
                  /\ Len(out'.answer_categories) = Len(out'.code)]_vars

\* get_answer_fields has raised on a table in which a page break of the code
\* list faces a category label, after a regular row.
C27_Witness ==
    /\ MergeRaised
    /\ err = "AssertionError"
    /\ \E i \in 2..Len(out.code) :
           /\ IsPageBreak(out.code[i])
           /\ out.answer_categories[i].kind = "str"
           /\ \A j \in 1..(i - 1) : RegularAt(out.answer_categories, out.code, j)

\* C28: a CodeElementBreak is never the first item of the code list and
\* never next to a page break, and whenever the merge reaches one a regular
\* row has been appended before it, so that ans_out[-1] exists: the merge
\* never raises IndexError.
C28_BreakAfterRegularRow ==
    /\ (AtMerge \/ MergeRaised) =>
           \A i \in 1..Len(out.code) :
               IsCodeBreak(out.code[i]) =>
                   /\ i > 1
                   /\ out.code[i - 1].kind = "str"
                   /\ i < Len(out.code) => out.code[i + 1].kind = "str"
                   /\ (\A j \in 1..(i - 1) : ~MismatchAt(out.answer_categories, out.code, j))
                          => \E j \in 1..(i - 1) : RegularAt(out.answer_categories, out.code, j)
    /\ ~(pc = "raised" /\ err = "IndexError")

\* The merge has gone through a table with a wrapped label and, after it, a
\* repeated pair of headings: it joined the fragment onto the last merged
\* category and then dropped the page breaks.
C28_Witness ==
    /\ pc = "merged"
    /\ page.lines = <<"row", "wrap", "row", "headBoth">>
    /\ Len(out.answer_categories) = 2
    /\ Len(out.code) = 2

HasComma(text) == \E i \in 1..Len(text) : text[i] = COMMA
\* The cells of the three numeric columns and the three totals.
NumericCells(o) ==
    {o.frequency[i] : i \in 1..Len(o.frequency)}
    \cup {o.weighted_frequency[i] : i \in 1..Len(o.weighted_frequency)}
    \cup {o.percent[i] : i \in 1..Len(o.percent)}
    \cup {o.total.frequency, o.total.weighted_frequency, o.total.percent}
\* A table of complete rows whose printed totals are the sums of its rows.
FullConsistentTable ==
    /\ \A k \in 1..Len(page.lines) : page.lines[k] = "row"
    /\ page.split = "merged"
    /\ page.profile.dF = 0 /\ page.profile.dW = 0 /\ page.profile.dP = 0

\* C12: the thousands separators are removed from every cell of the
\* frequency, weighted frequency and percent columns, the totals included,
\* before the cell is converted: the cells returned hold no comma, and a
\* table whose printed totals are the sums of its printed rows is returned
\* whether or not its numbers are printed with separators.
C12_SeparatorsRemoved ==
    /\ pc = "returned" => \A t \in NumericCells(out) : ~HasComma(t)
    /\ (FullConsistentTable /\ pc \in {"returned", "raised"}) => pc = "returned"

-----------------------------------------------------------------------------
(* The runtime lookup that reads the records                               *)

\* _SurveyVar.__init__, lines 27-37: raw[...] of each of the nine metadata
\* keys, a KeyError when one is missing.
SurveyVar_init(raw) ==
    IF MetadataKeys \subseteq DOMAIN raw THEN Ret(raw) ELSE Raise("KeyError")

\* Python values of mixed type: an int, a float (in hundredths), a str, None.
PyInt(n) == [kind |-> "int", n |-> n, s |-> <<>>]
PyFloat(h) == [kind |-> "float", n |-> h, s |-> <<>>]
PyStr(t) == [kind |-> "str", n |-> 0, s |-> t]
PyNone == [kind |-> "None", n |-> 0, s |-> <<>>]

PROBCNTP_KEY == <<"PROBCNTP">>
PROBCNTP_AGGREGATE_CODE == <<"0", "1", SP, "-", SP, "1", "6">>
VALID_SKIP == <<"Valid", SP, "skip">>

Max(S) == CHOOSE x \in S : \A y \in S : y <= x
\* {k: v for k, v in zip(ks, vs)}: zip stops at the shorter list and a
\* repeated key keeps its last value.
DictOfZip(ks, vs) ==
    LET n == Min(Len(ks), Len(vs))
    IN  [k \in {ks[i] : i \in 1..n} |-> vs[Max({i \in 1..n : ks[i] = k})]]

\* list.index(x): the 0-based position of the first x, -1 standing for the
\* ValueError of a list without x.
ListIndex(l, x) ==
    IF \E i \in 1..Len(l) : l[i] = x
    THEN (CHOOSE i \in 1..Len(l) : l[i] = x /\ \A j \in 1..(i - 1) : l[j] # x) - 1
    ELSE -1
\* list.pop(i) and list.insert(i, x) for a 0-based i within the list.
ListPop(l, i) == SubSeq(l, 1, i) \o SubSeq(l, i + 2, Len(l))
ListInsert(l, i, x) == SubSeq(l, 1, i) \o <<x>> \o SubSeq(l, i + 1, Len(l))
\* Variant of list.reverse() that leaves the list as it is.
Unreversed(l) == [i \in 1..Len(l) |-> l[i]]
Reverse(l) == [i \in 1..Len(l) |-> l[Len(l) + 1 - i]]
RECURSIVE InsertEach(_, _, _)
\* for x in items: l.insert(i, x)
InsertEach(l, i, items) ==
    IF items = <<>> THEN l ELSE InsertEach(ListInsert(l, i, Head(items)), i, Tail(items))
\* list(range(start, end + 1))
RangeList(start, end) == [i \in 1..(IF end >= start THEN end - start + 1 ELSE 0) |-> start + i - 1]


\* A _SurveyVar object.  has_answer: _ans_cats and _codes are set;
\* has_freqs: _frequency, _weighted_frequency, _percent and _total are set;
\* lookups: the lookup dicts that are set, by type; freq_disabled: the three
\* numeric lookup methods have been replaced by error_func.
MetadataOnly(raw) ==
    [name |-> raw["variable_name"], has_answer |-> FALSE, has_freqs |-> FALSE,
     ans_cats |-> <<>>, codes |-> <<>>, freqs |-> <<>>, wt_freqs |-> <<>>,
     percents |-> <<>>, lookups |-> EmptyDict, freq_disabled |-> FALSE]

\* Lines 142-167, for the lookups asked for.
generate_lookup_by_code(sv, ans, freq, wt_freq, percent) ==
    LET types == (IF ans THEN {"answer"} ELSE {}) \cup (IF freq THEN {"freq"} ELSE {})
                 \cup (IF wt_freq THEN {"wtfreq"} ELSE {})
                 \cup (IF percent THEN {"percent"} ELSE {})
        values(t) == CASE t = "answer" -> sv.ans_cats [] t = "freq" -> sv.freqs
                       [] t = "wtfreq" -> sv.wt_freqs [] t = "percent" -> sv.percents
    IN  [sv EXCEPT !.lookups = [t \in types |-> DictOfZip(sv.codes, values(t))]]

\* Lines 64-81.
handle_answer_section(raw, attempt_int_conversion) ==
    IF ~(AnswerKeys \subseteq DOMAIN raw) THEN Raise("KeyError")
    ELSE LET rc == raw["code"]
             ints == attempt_int_conversion /\ \A i \in 1..Len(rc) : IntOk(rc[i])
             codes == [i \in 1..Len(rc) |->
                          IF ints THEN PyInt(IntVal(rc[i])) ELSE PyStr(rc[i])]
         IN  Ret([MetadataOnly(raw) EXCEPT
                     !.has_answer = TRUE, !.has_freqs = TRUE,
                     !.ans_cats = raw["answer_categories"], !.codes = codes,
                     !.freqs = raw["frequency"],
                     !.wt_freqs = raw["weighted_frequency"],
                     !.percents = raw["percent"]])

\* Lines 83-140.
handle_PROBCNTP_answer_section(raw) ==
    IF ~(AnswerKeys \subseteq DOMAIN raw) THEN Raise("KeyError")
    ELSE LET codes0 == raw["code"]
             agg_code_idx == ListIndex(codes0, PROBCNTP_AGGREGATE_CODE)
         IN  IF agg_code_idx < 0 THEN Raise("ValueError")
             ELSE
             LET agg_code == codes0[agg_code_idx + 1]
                 popped == ListPop(codes0, agg_code_idx)
                 parts == Split(agg_code, "-")
             IN  IF Len(parts) # 2 \/ ~IntOk(parts[1]) \/ ~IntOk(parts[2])
                 THEN Raise("ValueError")
                 ELSE
                 LET indiv_codes == Reverse(RangeList(IntVal(parts[1]), IntVal(parts[2])))
                     mixed == InsertEach([i \in 1..Len(popped) |-> PyStr(popped[i])],
                                         agg_code_idx,
                                         [i \in 1..Len(indiv_codes) |-> PyInt(indiv_codes[i])])
                     ans0 == raw["answer_categories"]
                     indiv_ans_cats == [i \in 1..Len(indiv_codes) |-> IntText(indiv_codes[i])]
                 IN  IF \E i \in 1..Len(mixed) : mixed[i].kind = "str" /\ ~IntOk(mixed[i].s)
                     THEN Raise("ValueError")
                     ELSE IF agg_code_idx >= Len(ans0) THEN Raise("IndexError")
                     ELSE Ret([MetadataOnly(raw) EXCEPT
                                  !.has_answer = TRUE,
                                  !.ans_cats = InsertEach(ListPop(ans0, agg_code_idx),
                                                          agg_code_idx, indiv_ans_cats),
                                  !.codes = [i \in 1..Len(mixed) |->
                                                IF mixed[i].kind = "int" THEN mixed[i]
                                                ELSE PyInt(IntVal(mixed[i].s))],
                                  !.freq_disabled = TRUE])

\* _SurveyVar(survey_var, attempt_int_conversion), lines 15-54.
SurveyVar(raw, attempt_int_conversion) ==
    IF SurveyVar_init(raw).raised THEN Raise("KeyError")
    ELSE IF "answer_categories" \notin DOMAIN raw THEN Ret(MetadataOnly(raw))
    ELSE IF raw["variable_name"] = PROBCNTP_KEY
    THEN LET h == handle_PROBCNTP_answer_section(raw)
         IN  IF h.raised THEN h
             ELSE Ret(generate_lookup_by_code(h.val, TRUE, FALSE, FALSE, FALSE))
    ELSE LET h == handle_answer_section(raw, attempt_int_conversion)
         IN  IF h.raised THEN h
             ELSE Ret(generate_lookup_by_code(h.val, TRUE, TRUE, TRUE, TRUE))

PyBool(b) == [kind |-> "bool", n |-> IF b THEN 1 ELSE 0, s |-> <<>>]

\* How a caller passes suppress_missing: not at all (the default, True),
\* or explicitly.
SuppressArgs == {"default", "True", "False"}
Suppress(a) == a # "False"

\* Variant of lines 169-213 that raises for a code that is not in the lookup
\* whatever suppress_missing is.
lookup_by_code_unsuppressed(o, code, type, suppress_missing) ==
    IF type \notin DOMAIN o.lookups
    THEN (IF suppress_missing THEN Ret(PyNone) ELSE Raise("AttributeError"))
    ELSE IF code \in DOMAIN o.lookups[type] THEN Ret(PyStr(o.lookups[type][code]))
    ELSE Raise("KeyError")

\* Lines 169-213, for the four types the public methods pass.
lookup_by_code(o, code, type, suppress_missing) ==
    IF type \notin DOMAIN o.lookups
    THEN (IF suppress_missing THEN Ret(PyNone) ELSE Raise("AttributeError"))
    ELSE IF code \in DOMAIN o.lookups[type] THEN Ret(PyStr(o.lookups[type][code]))
    ELSE IF suppress_missing THEN Ret(PyNone)
    ELSE Raise("KeyError")

\* Lines 215-229.
lookup_answer(o, code, a) == lookup_by_code(o, code, "answer", Suppress(a))

\* error_func, lines 133-140: a plain function of one parameter stored on
\* the instance; the code takes the place of self.
error_func(a) == IF a = "default" THEN Raise("NotImplementedError") ELSE Raise("TypeError")

\* int(x) and float(x) of what _lookup_by_code returned.
IntOf(r) ==
    IF r.raised THEN r
    ELSE IF r.val.kind = "None" THEN Raise("TypeError")
    ELSE IF IntOk(r.val.s) THEN Ret(PyInt(IntVal(r.val.s))) ELSE Raise("ValueError")
FloatOf(r) ==
    IF r.raised THEN r
    ELSE IF r.val.kind = "None" THEN Raise("TypeError")
    ELSE IF FloatOk(r.val.s) THEN Ret(PyFloat(FloatVal(r.val.s))) ELSE Raise("ValueError")

\* Lines 231-277.
lookup_freq(o, code, a) ==
    IF o.freq_disabled THEN error_func(a)
    ELSE IntOf(lookup_by_code(o, code, "freq", Suppress(a)))
lookup_wt_freq(o, code, a) ==
    IF o.freq_disabled THEN error_func(a)
    ELSE IntOf(lookup_by_code(o, code, "wtfreq", Suppress(a)))
lookup_percent(o, code, a) ==
    IF o.freq_disabled THEN error_func(a)
    ELSE FloatOf(lookup_by_code(o, code, "percent", Suppress(a)))

\* Lines 279-291 with the property ans_cats, lines 341-346: the property
\* returns None when _ans_cats is not set, and `in None` is a TypeError.
has_valid_skips(o) ==
    IF ~o.has_answer THEN Raise("TypeError")
    ELSE Ret(PyBool(\E i \in 1..Len(o.ans_cats) : o.ans_cats[i] = VALID_SKIP))

\* The read-only properties of lines 301-307 and 341-379.  A property that
\* guards its read with `except AttributeError` returns None when the
\* attribute was never set.
SurveyVar_name(o) == Ret(o.name)
SurveyVar_var_name(o) == Ret(o.name)
SurveyVar_ans_cats(o) == IF o.has_answer THEN Ret(o.ans_cats) ELSE Ret(PyNone)
SurveyVar_answer_categories(o) == SurveyVar_ans_cats(o)
SurveyVar_freqs(o) == IF o.has_freqs THEN Ret(o.freqs) ELSE Ret(PyNone)
\* Line 368 reads self._freqs, an attribute no line of the class sets.
SurveyVar_frequencies(o) == Raise("AttributeError")
SurveyVar_wt_freqs(o) == IF o.has_freqs THEN Ret(o.wt_freqs) ELSE Ret(PyNone)
SurveyVar_weighted_frequencies(o) == SurveyVar_wt_freqs(o)

-----------------------------------------------------------------------------
(* The records the lookup is constructed from, and its calls               *)

MaxCodes == 2

\* The printed codes and labels of the model: two numeric codes, a date (the
\* code of VERDATE is one), and two labels.
RawCodes == {<<"0", "1">>, <<"0", "2">>, <<"2", "8", "/", "0", "2">>}
RawLabels == {<<"Yes">>, VALID_SKIP}
RECURSIVE ListsOf(_, _)
\* The lists of exactly n members of S.
ListsOf(S, n) ==
    IF n = 0 THEN {<<>>} ELSE {Append(l, x) : l \in ListsOf(S, n - 1), x \in S}

MetadataOf(name) == [k \in MetadataKeys |-> IF k = "variable_name" THEN name ELSE <<"text">>]
\* A record with an answer section: row i has the i-th numbers of the
\* answer tables of the extractor's model.
AnswerSection(cats, codes) ==
    LET n == Len(codes)
        f == [i \in 1..n |-> IntText(RowNum(RowFreq, i))]
        w == [i \in 1..n |-> IntText(RowNum(RowWeighted, i))]
        pt == [i \in 1..n |-> PrintedPct(RowNum(RowPct, i))]
    IN  ("answer_categories" :> cats) @@ ("code" :> codes) @@ ("frequency" :> f)
        @@ ("weighted_frequency" :> w) @@ ("percent" :> pt)
        @@ ("total" :> [frequency |-> IntText(SumSeq([i \in 1..n |-> RowNum(RowFreq, i)])),
                        weighted_frequency |->
                            IntText(SumSeq([i \in 1..n |-> RowNum(RowWeighted, i)])),
                        percent |-> PrintedPct(SumSeq([i \in 1..n |-> RowNum(RowPct, i)]))])
OrdinaryRaws ==
    UNION {{AnswerSection(cats, codes) @@ MetadataOf(<<"AGEGRPP">>) :
               cats \in ListsOf(RawLabels, n), codes \in ListsOf(RawCodes, n)} :
           n \in 1..MaxCodes}
\* Records without an answer section: as the extractor writes them for a
\* non-question variable, with and without the source key.
PlainRaws ==
    {MetadataOf(<<"PUMFID">>),
     [k \in MetadataKeys \ {"source"} |-> MetadataOf(<<"WTPP">>)[k]]}
\* PROBCNTP records: the aggregate code among n other codes, at each
\* position; and one without the aggregate code.
OtherCodes == << <<"0", "0">>, <<"9", "9">>, <<"9", "8">> >>
OtherLabels == << <<"None">>, <<"Not", SP, "stated">>, <<"Refused">> >>
ProbcntpRaws ==
    UNION {{AnswerSection(
                ListInsert(SubSeq(OtherLabels, 1, n), at, <<"Number", SP, "of", SP, "problems">>),
                ListInsert(SubSeq(OtherCodes, 1, n), at, PROBCNTP_AGGREGATE_CODE))
            @@ MetadataOf(PROBCNTP_KEY) : at \in 0..n} : n \in 0..MaxCodes}
    \cup {AnswerSection(SubSeq(OtherLabels, 1, 1), SubSeq(OtherCodes, 1, 1))
          @@ MetadataOf(PROBCNTP_KEY)}
RawVars == OrdinaryRaws \cup PlainRaws \cup ProbcntpRaws

\* The codes callers look up.
AskedCodes ==
    {PyInt(1), PyInt(2), PyInt(7), PyInt(16), PyInt(99), PyStr(<<"0", "1">>),
     PyStr(<<"2", "8", "/", "0", "2">>)}
LookupMethods == {"lookup_answer", "lookup_freq", "lookup_wt_freq", "lookup_percent"}

IdleExtractor == IdleCall /\ IdleRun /\ err = ""
extractorVars == <<callVars, runVars, err>>
outsideLookup == <<extractorVars, groupVars, transformVars, windowVars, locateVars>>

InitLookup ==
    /\ sv_raw \in RawVars
    /\ sv_obj = <<>>
    /\ sv_pc = "new"
    /\ sv_call = <<>>
    /\ sv_res = <<>>
    /\ IdleExtractor
    /\ IdleGroup
    /\ IdleTransform
    /\ IdleWindow
    /\ IdleLocate

\* _SurveyVar(sv_raw), as SurveyVars.__init__ constructs each variable
\* (line 399), or with attempt_int_conversion off.
Construct ==
    /\ sv_pc = "new"
    /\ \E attempt_int_conversion \in BOOLEAN :
           sv_obj' = SurveyVar(sv_raw, attempt_int_conversion)
    /\ sv_pc' = IF sv_obj'.raised THEN "failed" ELSE "built"
    /\ UNCHANGED <<sv_raw, sv_call, sv_res, outsideLookup>>

CallLookup(method) ==
    /\ sv_pc = "built"
    /\ \E code \in AskedCodes, a \in SuppressArgs :
           /\ sv_call' = [method |-> method, code |-> code, suppress_missing |-> a]
           /\ sv_res' = CASE method = "lookup_answer" -> lookup_answer(sv_obj.val, code, a)
                          [] method = "lookup_freq" -> lookup_freq(sv_obj.val, code, a)
                          [] method = "lookup_wt_freq" -> lookup_wt_freq(sv_obj.val, code, a)
                          [] method = "lookup_percent" -> lookup_percent(sv_obj.val, code, a)
    /\ sv_pc' = "called"
    /\ UNCHANGED <<sv_raw, sv_obj, outsideLookup>>

LookupAnswer == CallLookup("lookup_answer")
LookupFreq == CallLookup("lookup_freq")
LookupWtFreq == CallLookup("lookup_wt_freq")
LookupPercent == CallLookup("lookup_percent")

HasValidSkips ==
    /\ sv_pc = "built"
    /\ sv_call' = [method |-> "has_valid_skips", code |-> PyNone,
                   suppress_missing |-> "default"]
    /\ sv_res' = has_valid_skips(sv_obj.val)
    /\ sv_pc' = "called"
    /\ UNCHANGED <<sv_raw, sv_obj, outsideLookup>>

PropertyNames ==
    {"name", "var_name", "ans_cats", "answer_categories", "freqs", "frequencies",
     "wt_freqs", "weighted_frequencies"}
ReadOf(prop, o) ==
    CASE prop = "name" -> SurveyVar_name(o)
      [] prop = "var_name" -> SurveyVar_var_name(o)
      [] prop = "ans_cats" -> SurveyVar_ans_cats(o)
      [] prop = "answer_categories" -> SurveyVar_answer_categories(o)
      [] prop = "freqs" -> SurveyVar_freqs(o)
      [] prop = "frequencies" -> SurveyVar_frequencies(o)
      [] prop = "wt_freqs" -> SurveyVar_wt_freqs(o)
      [] prop = "weighted_frequencies" -> SurveyVar_weighted_frequencies(o)

\* A caller reads one of the properties of the variable.
ReadProperty ==
    /\ sv_pc = "built"
    /\ \E prop \in PropertyNames :
           /\ sv_call' = [method |-> prop, code |-> PyNone, suppress_missing |-> "default"]
           /\ sv_res' = ReadOf(prop, sv_obj.val)
    /\ sv_pc' = "called"
    /\ UNCHANGED <<sv_raw, sv_obj, outsideLookup>>

NextLookup ==
    Construct \/ LookupAnswer \/ LookupFreq \/ LookupWtFreq \/ LookupPercent
    \/ HasValidSkips \/ ReadProperty

SpecLookup == InitLookup /\ [][NextLookup]_vars

-----------------------------------------------------------------------------
(* Properties of the run, checked under SpecRun                            *)

\* Unit i has been through the loop body / has been through it without error.
Processed(i) == i \in 1..idx
Completed(i) == Processed(i) /\ ~(step = "aborted" /\ i = idx)
HasAnchor(u, anchor) == \E k \in 1..Len(u) : StrContains(u[k].text, anchor)
AnswerKeysOf(q) == AnswerKeys \cap DOMAIN q
NonQuestionNames == {<<"PUMFID">>, <<"WTPP">>, <<"VERDATE">>}
\* The Unit carries the nine labels of the metadata block.
LabelsComplete(u) ==
    \A f \in {Field_variable_name, Field_length, Field_position,
              Field_question_name, Field_concept, Field_question_text,
              Field_universe, Field_note, Field_source} : HasAnchor(u, f)
\* The loop body raises on u.
Raises(u) == ProcessUnit(u, EmptyDict).raised

\* C7: the output path is written only after every Unit has been processed
\* without error, and then once, with the complete list of records; when a
\* Unit raises the run aborts there, no later Unit is processed and nothing
\* is written.
C7_WriteOnlyAfterAllUnits ==
    /\ Len(output) <= 1
    /\ step = "done" <=> Len(output) = 1
    /\ Len(output) = 1 =>
           /\ idx = Len(units)
           /\ output[1] = questions
           /\ Len(output[1]) = Len(units)
           /\ \A i \in 1..Len(units) : ~Raises(units[i])
    /\ \A i \in 1..idx : Raises(units[i]) => step = "aborted" /\ i = idx
    /\ step = "aborted" =>
           /\ output = <<>>
           /\ \A j \in (idx + 1)..Len(questions) : questions[j] = EmptyDict

C7_Witness ==
    /\ step = "aborted"
    /\ idx = 1
    /\ Len(units) = 2
    /\ ~Raises(units[2])
    /\ questions[2] = EmptyDict
    /\ output = <<>>

C9_NineMetadataKeys ==
    Len(output) = 1 =>
        \A i \in 1..Len(output[1]) :
            /\ MetadataKeys \subseteq DOMAIN output[1][i]
            /\ ~SurveyVar_init(output[1][i]).raised

\* C10: a Unit with an answer table and no "Source:" anchor raises and the
\* run aborts at it; neither its source nor its note is set.
C10_MissingSourceAborts ==
    \A i \in 1..idx :
        (HasAnchor(units[i], Field_answer_categories) /\ ~HasAnchor(units[i], Field_source))
            => /\ step = "aborted"
               /\ i = idx
               /\ err = "AttributeError"
               /\ output = <<>>
               /\ "note" \notin DOMAIN questions[i]
               /\ "source" \notin DOMAIN questions[i]

C10_Witness ==
    /\ step = "aborted"
    /\ idx = 2
    /\ HasAnchor(units[2], Field_answer_categories)
    /\ HasAnchor(units[2], Field_note)
    /\ ~HasAnchor(units[2], Field_source)
    /\ questions[2]["variable_name"] = <<"AGEGRPP">>
    /\ "universe" \in DOMAIN questions[2]

\* The text values of a record: the metadata strings, the items of the
\* five lists and the three totals.
TextsOfRecord(q) ==
    LET d == DOMAIN q
    IN  {q[k] : k \in d \cap MetadataKeys}
        \cup UNION {{q[k][i].text : i \in 1..Len(q[k])} :
                       k \in d \cap {"answer_categories", "code"}}
        \cup UNION {{q[k][i] : i \in 1..Len(q[k])} :
                       k \in d \cap {"frequency", "weighted_frequency", "percent"}}
        \cup UNION {{q[k].frequency, q[k].weighted_frequency, q[k].percent} :
                       k \in d \cap {"total"}}
HasLigature(text) == \E i \in 1..Len(text) : text[i] = LIGATURE

\* C11: the faulty ligature is in no text value of any record written,
\* whatever the texts of the input Elements are.
C11_NoLigatureInOutput ==
    Len(output) = 1 =>
        \A i \in 1..Len(output[1]) :
            \A t \in TextsOfRecord(output[1][i]) : ~HasLigature(t)

\* The outcome of a finished run: the records written, or the Unit at
\* which it aborted (0: before the loop) and the cause.
Written(records) == [kind |-> "written", records |-> records, at |-> 0, cause |-> ""]
Aborted(at, cause) == [kind |-> "aborted", records |-> <<>>, at |-> at, cause |-> cause]
Outcome == IF step = "done" THEN Written(output[1]) ELSE Aborted(idx, err)
\* The outcome the loop gives for the Units us when nothing else interferes.
LoopOutcome(us) ==
    LET bad == {i \in 1..Len(us) : Raises(us[i])}
        first == CHOOSE i \in bad : \A j \in bad : i <= j
    IN  IF bad = {} THEN Written([i \in 1..Len(us) |-> ProcessUnit(us[i], EmptyDict).q])
        ELSE Aborted(first, ProcessUnit(us[first], EmptyDict).err)

\* C13: a finished run has the outcome that the loop over its Units gives,
\* with debug mode enabled as with it disabled: the same records written or
\* an abort at the same error.
C13_DebugSameOutcome ==
    step \in {"done", "aborted"} => Outcome = LoopOutcome(units)

-----------------------------------------------------------------------------
(* Properties of the lookup, checked under SpecLookup                      *)

Called(method) == sv_pc = "called" /\ sv_call.method = method
\* The 1-based positions of the asked code in the object's code list.
PositionsOf(code) == {i \in 1..Len(sv_obj.val.codes) : sv_obj.val.codes[i] = code}

\* C14: for a variable with an answer section, lookup_answer(code) returns
\* the answer category at the position of code in the code list; for a code
\* that is not in the list it returns None when suppress_missing is True or
\* left to its default, and raises KeyError when it is False.
C14_LookupAnswer ==
    (Called("lookup_answer") /\ sv_obj.val.has_answer) =>
        IF PositionsOf(sv_call.code) # {}
        THEN /\ ~sv_res.raised
             /\ sv_res.val = PyStr(sv_obj.val.ans_cats[Max(PositionsOf(sv_call.code))])
        ELSE IF Suppress(sv_call.suppress_missing) THEN sv_res = Ret(PyNone)
        ELSE sv_res = Raise("KeyError")

C14_Witness ==
    /\ Called("lookup_answer")
    /\ sv_obj.val.codes = <<PyInt(1), PyInt(2)>>
    /\ sv_obj.val.ans_cats = <<VALID_SKIP, <<"Yes">> >>
    /\ sv_call.code = PyInt(2)
    /\ sv_res = Ret(PyStr(<<"Yes">>))

\* C15: lookup_freq, lookup_wt_freq and lookup_percent with suppress_missing
\* True (or left to its default) return None, and do not raise, for a code
\* that is not in the code list of an ordinary variable and for a variable
\* with no answer section.
C15_NumericLookupsSuppress ==
    (/\ sv_pc = "called"
     /\ sv_call.method \in {"lookup_freq", "lookup_wt_freq", "lookup_percent"}
     /\ Suppress(sv_call.suppress_missing)
     /\ sv_obj.val.name # PROBCNTP_KEY
     /\ PositionsOf(sv_call.code) = {})
        => sv_res = Ret(PyNone)

\* The 1-based position of the aggregate code in the record's code list.
AggregateAt == ListIndex(sv_raw["code"], PROBCNTP_AGGREGATE_CODE) + 1
\* Where position i of the record's lists is in the object's lists.
Expanded(i) == IF i < AggregateAt THEN i ELSE i + 15

\* C16: for a PROBCNTP record with the aggregate code '01 - 16', the object
\* has the integer codes 1..16, ascending, at the aggregate's position and
\* the labels '1'..'16' at the same positions; every other code is
\* converted to an integer and keeps its order and its label; codes and
\* answer_categories have equal length, 15 more than printed; and
\* lookup_answer(k) is str(k) for 1 <= k <= 16.
C16_ProbcntpExpansion ==
    (/\ sv_pc \in {"built", "failed", "called"}
     /\ sv_raw["variable_name"] = PROBCNTP_KEY
     /\ AggregateAt >= 1)
        => /\ ~sv_obj.raised
           /\ LET o == sv_obj.val
                  rc == sv_raw["code"]
                  ra == sv_raw["answer_categories"]
              IN  /\ Len(o.codes) = Len(rc) + 15
                  /\ Len(o.ans_cats) = Len(o.codes)
                  /\ \A k \in 1..16 :
                         /\ o.codes[AggregateAt - 1 + k] = PyInt(k)
                         /\ o.ans_cats[AggregateAt - 1 + k] = IntText(k)
                         /\ o.lookups["answer"][PyInt(k)] = IntText(k)
                  /\ \A i \in 1..Len(rc) :
                         i # AggregateAt =>
                             /\ o.codes[Expanded(i)] = PyInt(IntVal(rc[i]))
                             /\ o.ans_cats[Expanded(i)] = ra[i]
                             /\ o.lookups["answer"][PyInt(IntVal(rc[i]))] = ra[i]
                  /\ (Called("lookup_answer") /\ sv_call.code.kind = "int"
                      /\ sv_call.code.n \in 1..16)
                         => sv_res = Ret(PyStr(IntText(sv_call.code.n)))

C16_Witness ==
    /\ Called("lookup_answer")
    /\ sv_raw["variable_name"] = PROBCNTP_KEY
    /\ sv_raw["code"] = << <<"0", "0">>, PROBCNTP_AGGREGATE_CODE, <<"9", "9">> >>
    /\ Len(sv_obj.val.codes) = 18
    /\ sv_call.code = PyInt(16)
    /\ sv_res = Ret(PyStr(<<"1", "6">>))

\* C17: has_valid_skips() returns True exactly when the variable has an
\* answer section whose answer categories contain 'Valid skip', and False
\* in every other case; it does not raise for a variable without answer
\* categories.
C17_HasValidSkips ==
    Called("has_valid_skips") =>
        sv_res = Ret(PyBool(/\ "answer_categories" \in DOMAIN sv_raw
                            /\ \E i \in 1..Len(sv_obj.val.ans_cats) :
                                   sv_obj.val.ans_cats[i] = VALID_SKIP))

\* The primary accessor of each alias.
PrimaryOf ==
    [var_name |-> "name", answer_categories |-> "ans_cats", frequencies |-> "freqs",
     weighted_frequencies |-> "wt_freqs"]

\* C29: each alias accessor returns what its primary accessor returns and
\* raises only where the primary raises: var_name as name, answer_categories
\* as ans_cats, frequencies as freqs, weighted_frequencies as wt_freqs, for
\* variables with and without an answer section.
C29_AliasesAgree ==
    (sv_pc = "called" /\ sv_call.method \in DOMAIN PrimaryOf) =>
        sv_res = ReadOf(PrimaryOf[sv_call.method], sv_obj.val)

-----------------------------------------------------------------------------
(* The page window: the data pages cut out of the document and trimmed      *)

START_PAGE == 9
END_PAGE == 126
MaxNodes == 4

\* A top-level node of the document: a tag with its name, the style matches
\* is_non_divider_hline looks for, the text of its first span and the name
\* attribute of its first <a> ("" where the attribute is missing), or a
\* string between tags.
Node(kind, name, font_family, divider_style, has_span, span_text, has_a, a_name) ==
    [kind |-> kind, name |-> name, font_family |-> font_family,
     divider_style |-> divider_style, has_span |-> has_span,
     span_text |-> span_text, has_a |-> has_a, a_name |-> a_name]

HlineNode == Node("hline", "span", FALSE, FALSE, FALSE, "", FALSE, "")
DividerNode == Node("divider", "span", FALSE, TRUE, FALSE, "", FALSE, "")
TextNode == Node("text", "div", FALSE, FALSE, TRUE, "body", FALSE, "")
HeaderNode == Node("header", "div", FALSE, FALSE, TRUE, "header", FALSE, "")
LinksNode == Node("links", "div", FALSE, FALSE, FALSE, "", TRUE, "")
PageNode(n) == Node("page", "div", FALSE, FALSE, FALSE, "", TRUE, n)

\* str(n) for the page numbers of the model.
PageName(n) == CASE n = START_PAGE -> "9" [] n = START_PAGE + 1 -> "10"
                 [] n = END_PAGE + 1 -> "127"

Nodes ==
    {HlineNode, DividerNode, TextNode, HeaderNode, LinksNode}
    \cup {PageNode(PageName(n)) : n \in {START_PAGE, START_PAGE + 1, END_PAGE + 1}}

Documents == UNION {ListsOf(Nodes, n) : n \in 0..MaxNodes}

is_non_divider_hline(tag) ==
    IF tag.name # "span" THEN FALSE
    ELSE IF tag.font_family THEN FALSE
    ELSE IF tag.divider_style THEN FALSE
    ELSE TRUE

\* The span text is one of the two fixed header/footer texts or matches the
\* page-number pattern.
IsHeaderFooter(tag) == tag.has_span /\ tag.span_text = "header"
IsPageDiv(tag) == tag.has_a

RECURSIVE WindowLoop(_, _, _)
\* `for tag in start_div.next_siblings` from sibling i on, html_doc so far.
WindowLoop(siblings, i, html_doc) ==
    IF i > Len(siblings) THEN Ret(html_doc)
    ELSE LET tag == siblings[i]
         IN  IF ~tag.has_a THEN WindowLoop(siblings, i + 1, Append(html_doc, tag))
             ELSE IF tag.a_name = "" THEN Raise("KeyError")
             ELSE IF tag.a_name = PageName(END_PAGE + 1) THEN Ret(html_doc)
             ELSE WindowLoop(siblings, i + 1, Append(html_doc, tag))

\* Lines 95-103: the document from the div of the first <a name="9"> up to,
\* not including, the first later node whose <a> is named "127".
select_window(children) ==
    LET starts == {i \in 1..Len(children) :
                       children[i].has_a /\ children[i].a_name = PageName(START_PAGE)}
    IN  IF starts = {} THEN Raise("IndexError")
        ELSE LET first == CHOOSE i \in starts : \A j \in starts : i <= j
             IN  WindowLoop(children, first + 1, <<children[first]>>)

RemoveAt(l, i) == SubSeq(l, 1, i - 1) \o SubSeq(l, i + 1, Len(l))

RECURSIVE ExtractOverCopy(_, _)
\* `for tag in [e for e in soup.children]: if ...: tag.extract()`, for the
\* tags of the kinds K: the loop runs over a copy of the child list.
ExtractOverCopy(contents, K) ==
    IF contents = <<>> THEN <<>>
    ELSE (IF Head(contents).kind \in K THEN <<>> ELSE <<Head(contents)>>)
         \o ExtractOverCopy(Tail(contents), K)

RECURSIVE ExtractWhileIterating(_, _, _)
\* `for tag in soup.children: if ...: tag.extract()`, for the tags of the
\* kinds K: soup.children is an iterator over the child list itself, at
\* place i, and extract() deletes the tag from that list, so the tag that
\* moves into the freed place is passed over.
ExtractWhileIterating(contents, i, K) ==
    IF i > Len(contents) THEN contents
    ELSE IF contents[i].kind \in K
         THEN ExtractWhileIterating(RemoveAt(contents, i), i + 1, K)
         ELSE ExtractWhileIterating(contents, i + 1, K)

KindsWhere(P(_)) == {n.kind : n \in {m \in Nodes : P(m)}}

InitWindow ==
    /\ doc \in Documents
    /\ soup = doc
    /\ win_pc = "start"
    /\ win_err = ""
    /\ IdleExtractor
    /\ IdleLookup
    /\ IdleGroup
    /\ IdleTransform
    /\ IdleLocate

outsideWindow == <<extractorVars, lookupVars, groupVars, transformVars, locateVars>>

\* Lines 95-103.
SelectWindow ==
    /\ win_pc = "start"
    /\ LET r == select_window(soup)
       IN  IF r.raised
           THEN /\ win_pc' = "raised"
                /\ win_err' = r.err
                /\ UNCHANGED soup
           ELSE /\ win_pc' = "window"
                /\ soup' = r.val
                /\ UNCHANGED win_err
    /\ UNCHANGED <<doc, outsideWindow>>

\* Lines 138-141.
RemoveHlines ==
    /\ win_pc = "window"
    /\ soup' = ExtractOverCopy(soup, KindsWhere(is_non_divider_hline))
    /\ win_pc' = "hlines"
    /\ UNCHANGED <<doc, win_err, outsideWindow>>

\* Lines 143-150.
RemoveHeadersFooters ==
    /\ win_pc = "hlines"
    /\ soup' = ExtractWhileIterating(soup, 1, KindsWhere(IsHeaderFooter))
    /\ win_pc' = "headers"
    /\ UNCHANGED <<doc, win_err, outsideWindow>>

\* Lines 152-155.
RemovePageDivs ==
    /\ win_pc = "headers"
    /\ soup' = ExtractWhileIterating(soup, 1, KindsWhere(IsPageDiv))
    /\ win_pc' = "done"
    /\ UNCHANGED <<doc, win_err, outsideWindow>>

NextWindow == SelectWindow \/ RemoveHlines \/ RemoveHeadersFooters \/ RemovePageDivs

SpecWindow == InitWindow /\ [][NextWindow]_vars

-----------------------------------------------------------------------------
(* Properties of the page window, checked under SpecWindow                  *)

HasNode(l, P(_)) == \E i \in 1..Len(l) : P(l[i])
IsStartAnchor(tag) == tag.has_a /\ tag.a_name = PageName(START_PAGE)
IsEndAnchor(tag) == tag.has_a /\ tag.a_name = PageName(END_PAGE + 1)

\* The first place of the start anchor in the document, 0 if there is none.
StartPlace ==
    IF HasNode(doc, IsStartAnchor)
    THEN CHOOSE i \in 1..Len(doc) :
             /\ IsStartAnchor(doc[i])
             /\ \A j \in 1..(i - 1) : ~IsStartAnchor(doc[j])
    ELSE 0

\* C22: the selection of the page window fails when the anchor of the first
\* data page is not in the document, and also when no anchor of the page
\* after the last data page follows it: it never takes the rest of the
\* document as the window.
C22_MissingAnchorIsFatal ==
    win_pc # "start" =>
        /\ ~HasNode(doc, IsStartAnchor) => win_pc = "raised"
        /\ (StartPlace > 0
            /\ ~HasNode(SubSeq(doc, StartPlace + 1, Len(doc)), IsEndAnchor))
               => win_pc = "raised"

\* C23: after the three removal passes no node of the window is a
\* non-divider horizontal rule, a header or footer block or a node with a
\* page anchor, whatever the arrangement of the nodes.
C23_NothingRemovableRemains ==
    win_pc = "done" =>
        \A i \in 1..Len(soup) :
            /\ ~is_non_divider_hline(soup[i])
            /\ ~IsHeaderFooter(soup[i])
            /\ ~IsPageDiv(soup[i])

-----------------------------------------------------------------------------
(* group_elements: the Elements of the document grouped into Units          *)

MaxElements == 4

\* The Elements the script can hand to group_elements at a given place of
\* the sorted list: a label at the left margin, a value in the text column,
\* or a divider line.  Tops grow along the list, as sorted() leaves them.
ElementKinds == {"label", "value", "divider"}
ElementAt(kind, i) ==
    CASE kind = "label" ->
            Element(TEXT_TYPE, 36, 20 * i, 90, LINE_HEIGHT, <<"label">>)
      [] kind = "value" ->
            Element(TEXT_TYPE, 178, 20 * i, 300, LINE_HEIGHT, <<"value">>)
      [] kind = "divider" ->
            Element(DIVIDER_TYPE, 36, 20 * i, 540, 1, <<>>)

ElementLists ==
    UNION {{[i \in 1..n |-> ElementAt(ks[i], i)] : ks \in [1..n -> ElementKinds]}
           : n \in 0..MaxElements}

InitGroup ==
    /\ elements \in ElementLists
    /\ grp_units = <<>>
    /\ current_unit = <<>>
    /\ grp_i = 0
    /\ grp_pc = "loop"
    /\ IdleExtractor
    /\ IdleLookup
    /\ IdleTransform
    /\ IdleWindow
    /\ IdleLocate

outsideGroup == <<extractorVars, lookupVars, transformVars, windowVars, locateVars>>

\* One iteration of `for e in elements`.
GroupIteration ==
    /\ grp_pc = "loop"
    /\ grp_i < Len(elements)
    /\ LET e == elements[grp_i + 1]
       IN  IF e.elem_type = DIVIDER_TYPE
           THEN /\ grp_units' = Append(grp_units, current_unit)
                /\ current_unit' = <<>>
           ELSE /\ current_unit' = Append(current_unit, e)
                /\ UNCHANGED grp_units
    /\ grp_i' = grp_i + 1
    /\ UNCHANGED <<elements, grp_pc, outsideGroup>>

\* `return units` once the loop has run out of Elements.
GroupReturn ==
    /\ grp_pc = "loop"
    /\ grp_i = Len(elements)
    /\ grp_pc' = "returned"
    /\ UNCHANGED <<elements, grp_units, current_unit, grp_i, outsideGroup>>

NextGroup == GroupIteration \/ GroupReturn

SpecGroup == InitGroup /\ [][NextGroup]_vars

-----------------------------------------------------------------------------
(* Properties of group_elements, checked under SpecGroup                    *)

TextElements(es) == SelectSeq(es, LAMBDA e : e.elem_type = TEXT_TYPE)

\* The number of Units of `us` that hold the Element e.
UnitsHolding(us, e) ==
    Cardinality({k \in 1..Len(us) : \E j \in 1..Len(us[k]) : us[k][j] = e})

\* C20: group_elements partitions the text Elements: once it has returned,
\* every text Element of the list is in exactly one Unit (those after the
\* last divider included), no Unit holds a divider, and the Elements of the
\* Units, read Unit by Unit, are the text Elements in the order of the list.
C20_GroupPartition ==
    grp_pc = "returned" =>
        /\ \A i \in 1..Len(elements) :
               elements[i].elem_type = TEXT_TYPE =>
                   UnitsHolding(grp_units, elements[i]) = 1
        /\ \A k \in 1..Len(grp_units) : \A j \in 1..Len(grp_units[k]) :
               grp_units[k][j].elem_type # DIVIDER_TYPE
        /\ FlatCat(grp_units) = TextElements(elements)

\* The blocks of a list: the runs of text Elements that the dividers and
\* the ends of the list delimit, the empty ones left out.
RECURSIVE NonEmptyBlocks(_, _)
NonEmptyBlocks(es, open) ==
    IF es = <<>> THEN (IF open = <<>> THEN <<>> ELSE <<open>>)
    ELSE IF Head(es).elem_type = DIVIDER_TYPE
         THEN (IF open = <<>> THEN <<>> ELSE <<open>>) \o NonEmptyBlocks(Tail(es), <<>>)
         ELSE NonEmptyBlocks(Tail(es), Append(open, Head(es)))

\* C21: no Unit returned by group_elements is empty, whether the list
\* starts with a divider, ends with one or has two in a row, and the Units
\* (one record each) are as many as the non-empty blocks of the list.
C21_NoEmptyUnit ==
    grp_pc = "returned" =>
        /\ \A k \in 1..Len(grp_units) : grp_units[k] # <<>>
        /\ Len(grp_units) = Len(NonEmptyBlocks(elements, <<>>))

-----------------------------------------------------------------------------
(* transform_data: the respondent table filtered, labelled and aggregated   *)
(* A dataframe is its column names, its rows (one function from column    *)
(* name to value per row, in index order) and, for each categorical         *)
(* column, the ordered categories of its dtype.  Weights are in halves.     *)

REGION_KEY == <<"REGION">>
WEIGHT_KEY == <<"WTPP">>

DataFrame(columns, rows, cats) == [columns |-> columns, rows |-> rows, cats |-> cats]
NoCats == [c \in {} |-> <<>>]

\* Python's truth value of an argument that is a bool or None.
Truthy(v) == v.kind = "bool" /\ v.n = 1

ColumnOf(df, name) == [i \in 1..Len(df.rows) |-> df.rows[i][name]]

\* df[[...]]: the named columns of every row.
SelectColumns(df, names) ==
    LET keep == {names[i] : i \in 1..Len(names)}
    IN  DataFrame(names,
                  [i \in 1..Len(df.rows) |-> [c \in keep |-> df.rows[i][c]]],
                  [c \in keep \cap DOMAIN df.cats |-> df.cats[c]])

\* df.assign(name = values) with a categorical dtype of these categories.
AssignColumn(df, name, values, categories) ==
    DataFrame(df.columns,
              [i \in 1..Len(df.rows) |-> [df.rows[i] EXCEPT ![name] = values[i]]],
              [c \in DOMAIN df.cats \cup {name} |->
                   IF c = name THEN categories ELSE df.cats[c]])

filter_by_region(df, region) ==
    IF region # PyNone
    THEN [df EXCEPT !.rows = SelectSeq(df.rows, LAMBDA r : r[REGION_KEY] = region.n)]
    ELSE df

filter_by_selected_and_groupby(df, selected_var, groupby_var) ==
    IF groupby_var = PyNone
    THEN SelectColumns(df, <<selected_var, WEIGHT_KEY>>)
    ELSE SelectColumns(df, <<selected_var, groupby_var.s, WEIGHT_KEY>>)

RECURSIVE Descending(_)
\* The members of a set of integers, largest first.
Descending(S) ==
    IF S = {} THEN <<>> ELSE <<Max(S)>> \o Descending(S \ {Max(S)})

\* s.sort_values().unique()
SortedUnique(s) == Reverse(Descending({s[i] : i \in 1..Len(s)}))

\* The ordered categorical dtype of a column of integer codes.
create_ordered_dtype(s) == SortedUnique(s)

\* The place of a value among the categories of a dtype.
CategoryCode(categories, v) == CHOOSE k \in 1..Len(categories) : categories[k] = v

\* survey_vars[name].lookup_answer(code) for a code of the variable.
survey_var_lookup_answer(survey_vars, name, code) == survey_vars[name][code]

\* s.astype(dtype).cat.rename_categories(lookup_answer): the values keep
\* their place among the categories and the categories take the labels.
order_and_convert_code(s, name, survey_vars) ==
    LET dtype == create_ordered_dtype(s)
        renamed == [k \in 1..Len(dtype) |->
                       survey_var_lookup_answer(survey_vars, name, dtype[k])]
    IN  [values |-> [i \in 1..Len(s) |-> renamed[CategoryCode(dtype, s[i])]],
         categories |-> renamed]

ConvertColumn(df, svs, name) ==
    LET c == order_and_convert_code(ColumnOf(df, name), name, svs)
    IN  AssignColumn(df, name, c.values, c.categories)

convert_to_categorical(df, svs, selected_var, groupby_var) ==
    LET d == ConvertColumn(df, svs, selected_var)
    IN  IF groupby_var # PyNone THEN ConvertColumn(d, svs, groupby_var.s) ELSE d

\* s.cat.remove_unused_categories()
remove_unused_categories(values, categories) ==
    SelectSeq(categories, LAMBDA c : \E i \in 1..Len(values) : values[i] = c)

\* Variant of _filter_valid_skips without the remove_unused_categories of
\* its assign: the category 'Valid skip' stays in the dtype.
filter_valid_skips_keeping_categories(df, selected_var, remove_valid_skips) ==
    IF Truthy(remove_valid_skips)
    THEN [df EXCEPT !.rows = SelectSeq(df.rows, LAMBDA r : r[selected_var] # VALID_SKIP)]
    ELSE df

filter_valid_skips(df, selected_var, remove_valid_skips) ==
    IF Truthy(remove_valid_skips)
    THEN LET q == [df EXCEPT !.rows =
                       SelectSeq(df.rows, LAMBDA r : r[selected_var] # VALID_SKIP)]
         IN  [q EXCEPT !.cats[selected_var] =
                  remove_unused_categories(ColumnOf(q, selected_var),
                                           q.cats[selected_var])]
    ELSE df

\* Variant of round() that rounds a half upwards.
RoundHalfUp(h) == (h + 1) \div 2

\* round() of h halves: to the nearest integer, a half to the even one.
RoundHalf(h) ==
    IF h % 2 = 0 THEN h \div 2
    ELSE IF (h \div 2) % 2 = 0 THEN h \div 2 ELSE h \div 2 + 1

\* The group keys of a groupby over categorical columns (observed left at
\* its default, False): every combination of the categories, in the order
\* of the dtypes, the first column slowest.
RECURSIVE GroupKeys(_, _)
GroupKeys(df, names) ==
    IF names = <<>> THEN << <<>> >>
    ELSE LET rest == GroupKeys(df, Tail(names))
             cs == df.cats[Head(names)]
         IN  FlatCat([k \in 1..Len(cs) |->
                         [j \in 1..Len(rest) |-> <<cs[k]>> \o rest[j]]])

groupby_and_aggregate(df, selected_var, groupby_var, weighted) ==
    LET groupby_list == IF groupby_var # PyNone
                        THEN <<selected_var, groupby_var.s>>
                        ELSE <<selected_var>>
        keys == GroupKeys(df, groupby_list)
        cell(key) == SelectSeq(df.rows, LAMBDA r :
                         \A n \in 1..Len(groupby_list) : r[groupby_list[n]] = key[n])
        weights(key) == [i \in 1..Len(cell(key)) |-> cell(key)[i][WEIGHT_KEY]]
        agg(key) == IF weighted THEN RoundHalf(SumSeq(weights(key)))
                    ELSE Len(cell(key))
        names == {groupby_list[n] : n \in 1..Len(groupby_list)}
    IN  DataFrame(groupby_list \o <<WEIGHT_KEY>>,
                  [j \in 1..Len(keys) |->
                      [c \in names \cup {WEIGHT_KEY} |->
                          IF c = WEIGHT_KEY THEN agg(keys[j])
                          ELSE keys[j][CHOOSE n \in 1..Len(groupby_list) :
                                           groupby_list[n] = c]]],
                  [c \in names |-> df.cats[c]])

-----------------------------------------------------------------------------
(* The respondent tables and arguments of the model                         *)

MaxRows == 2

SelectedVar == <<"DSHP20E">>
GroupbyVar == <<"GDRP10">>

\* The SurveyVars object: the answer lookup of each variable, by code.
SurveyVarsBook ==
    (SelectedVar :> (1 :> <<"Yes">> @@ 6 :> VALID_SKIP @@ 9 :> <<"Not", SP, "stated">>))
    @@ (GroupbyVar :> (1 :> <<"Men">> @@ 2 :> <<"Women">>))
    @@ (REGION_KEY :> (1 :> <<"Atlantic">> @@ 2 :> <<"Ontario">>))

CodesOf(name) == DOMAIN SurveyVarsBook[name]
CodeOfLabel(name, label) ==
    CHOOSE c \in CodesOf(name) : SurveyVarsBook[name][c] = label
\* The code of the selected variable's 'Valid skip' category.
SKIP_CODE == CodeOfLabel(SelectedVar, VALID_SKIP)

\* The weight of a respondent, in halves: 0.5 or 1.5.
WeightOf(region, g) == IF (region + g) % 2 = 0 THEN 1 ELSE 3

Respondents ==
    {(REGION_KEY :> r) @@ (SelectedVar :> c) @@ (GroupbyVar :> g)
       @@ (WEIGHT_KEY :> WeightOf(r, g))
     : r \in CodesOf(REGION_KEY), c \in CodesOf(SelectedVar), g \in CodesOf(GroupbyVar)}

RespondentTables ==
    {DataFrame(<<REGION_KEY, SelectedVar, GroupbyVar, WEIGHT_KEY>>, rows, NoCats)
     : rows \in UNION {ListsOf(Respondents, n) : n \in 0..MaxRows}}

TransformArgs ==
    [region : {PyNone, PyInt(1)},
     selected_var : {SelectedVar},
     groupby_var : {PyNone, PyStr(GroupbyVar)},
     remove_valid_skips : {PyBool(TRUE), PyBool(FALSE), PyNone},
     weighted : BOOLEAN]

InitTransform ==
    /\ tf_df \in RespondentTables
    /\ tf_args \in TransformArgs
    /\ tf_cur = tf_df
    /\ tf_pc = "start"
    /\ IdleExtractor
    /\ IdleLookup
    /\ IdleGroup
    /\ IdleWindow
    /\ IdleLocate

outsideTransform == <<extractorVars, lookupVars, groupVars, windowVars, locateVars>>

FilterByRegion ==
    /\ tf_pc = "start"
    /\ tf_cur' = filter_by_region(tf_cur, tf_args.region)
    /\ tf_pc' = "region"
    /\ UNCHANGED <<tf_df, tf_args, outsideTransform>>

FilterBySelectedAndGroupby ==
    /\ tf_pc = "region"
    /\ tf_cur' = filter_by_selected_and_groupby(tf_cur, tf_args.selected_var,
                                                tf_args.groupby_var)
    /\ tf_pc' = "columns"
    /\ UNCHANGED <<tf_df, tf_args, outsideTransform>>

ConvertToCategorical ==
    /\ tf_pc = "columns"
    /\ tf_cur' = convert_to_categorical(tf_cur, SurveyVarsBook,
                                        tf_args.selected_var, tf_args.groupby_var)
    /\ tf_pc' = "categorical"
    /\ UNCHANGED <<tf_df, tf_args, outsideTransform>>

FilterValidSkips ==
    /\ tf_pc = "categorical"
    /\ tf_cur' = filter_valid_skips(tf_cur, tf_args.selected_var,
                                    tf_args.remove_valid_skips)
    /\ tf_pc' = "skips"
    /\ UNCHANGED <<tf_df, tf_args, outsideTransform>>

GroupbyAndAggregate ==
    /\ tf_pc = "skips"
    /\ tf_cur' = groupby_and_aggregate(tf_cur, tf_args.selected_var,
                                       tf_args.groupby_var, tf_args.weighted)
    /\ tf_pc' = "done"
    /\ UNCHANGED <<tf_df, tf_args, outsideTransform>>

NextTransform ==
    FilterByRegion \/ FilterBySelectedAndGroupby \/ ConvertToCategorical
    \/ FilterValidSkips \/ GroupbyAndAggregate

SpecTransform == InitTransform /\ [][NextTransform]_vars

-----------------------------------------------------------------------------
(* Properties of transform_data, checked under SpecTransform                *)

Done == tf_pc = "done"
Grouped == tf_args.groupby_var # PyNone
Removing == Truthy(tf_args.remove_valid_skips)

\* The rows of the table that pass the region filter, and those of them the
\* aggregation counts.
PassingRows ==
    SelectSeq(tf_df.rows, LAMBDA r :
        tf_args.region = PyNone \/ r[REGION_KEY] = tf_args.region.n)
CountedRows ==
    SelectSeq(PassingRows, LAMBDA r : ~Removing \/ r[SelectedVar] # SKIP_CODE)

Occurring(rows, name) == {rows[i][name] : i \in 1..Len(rows)}

\* v is the count of the rows / the sum of their weights (in halves)
\* rounded to the nearest integer, a half going to the even neighbour.
IsCellValue(v, rows) ==
    LET h == SumSeq([i \in 1..Len(rows) |-> rows[i][WEIGHT_KEY]])
    IN  IF tf_args.weighted
        THEN /\ 2 * v - h \in {-1, 0, 1}
             /\ 2 * v # h => v % 2 = 0
        ELSE v = Len(rows)

\* The result has exactly one row for each of these codes of the selected
\* variable (and each of these codes of the groupby variable), in ascending
\* order of the codes, labelled by the codebook and valued by its cell.
ResultIsOver(selcodes, grpcodes) ==
    LET res == tf_cur.rows
        sel(j) == CodeOfLabel(SelectedVar, res[j][SelectedVar])
        grp(j) == IF Grouped THEN CodeOfLabel(GroupbyVar, res[j][GroupbyVar]) ELSE 0
        cell(j) == SelectSeq(CountedRows, LAMBDA r :
                       /\ r[SelectedVar] = sel(j)
                       /\ Grouped => r[GroupbyVar] = grp(j))
    IN  /\ Len(res) = Cardinality(selcodes)
                        * (IF Grouped THEN Cardinality(grpcodes) ELSE 1)
        /\ \A j \in 1..Len(res) :
               /\ sel(j) \in selcodes
               /\ Grouped => grp(j) \in grpcodes
               /\ IsCellValue(res[j][WEIGHT_KEY], cell(j))
        /\ \A j, k \in 1..Len(res) :
               j < k => \/ sel(j) < sel(k)
                        \/ sel(j) = sel(k) /\ grp(j) < grp(k)

\* C18 as stated: transform_data returns one row per answer category of the
\* selected variable (per category and subgroup with groupby_var), over the
\* rows that pass the region filter, in ascending code order, valued by the
\* count of the cell's rows or the rounded sum of their weights.
C18_RowPerAnswerCategory ==
    Done => ResultIsOver(CodesOf(SelectedVar) \ (IF Removing THEN {SKIP_CODE} ELSE {}),
                         CodesOf(GroupbyVar))

\* C18 (amended): transform_data returns one row per answer category that
\* occurs among the counted rows (the rows that pass the region filter, less
\* the valid skips when they are removed), and with groupby_var one row per
\* pair of such a category and a subgroup that occurs among the rows that
\* pass the region filter, an empty cell having the value 0; the rows are in
\* ascending code order and valued by the count of the cell's rows or the
\* sum of their weights rounded half to even.
C18_RowPerOccurringCategory ==
    Done => ResultIsOver(Occurring(CountedRows, SelectedVar),
                         Occurring(PassingRows, GroupbyVar))

\* A grouped, weighted result over a region: one respondent fails the region
\* filter, the other is alone in its cell with a weight of one half.
C18_Witness ==
    /\ Done
    /\ Grouped
    /\ tf_args.weighted
    /\ tf_args.region # PyNone
    /\ Len(tf_df.rows) = 2
    /\ Len(CountedRows) = 1
    /\ CountedRows[1][WEIGHT_KEY] = 1
    /\ Len(tf_cur.rows) = 1

\* The dataframe handed to _filter_valid_skips.
BeforeSkips ==
    convert_to_categorical(
        filter_by_selected_and_groupby(
            filter_by_region(tf_df, tf_args.region),
            tf_args.selected_var, tf_args.groupby_var),
        SurveyVarsBook, tf_args.selected_var, tf_args.groupby_var)

NotValidSkip(rows) == SelectSeq(rows, LAMBDA r : r[SelectedVar] # VALID_SKIP)

\* C19: with remove_valid_skips True the filter removes exactly the rows
\* whose selected variable is 'Valid skip' and keeps the others in order,
\* and the aggregated result is the unfiltered aggregated result without its
\* 'Valid skip' rows; with False or None the dataframe is returned as it is.
C19_FilterValidSkips ==
    /\ (tf_pc = "skips" /\ Removing) =>
           /\ tf_cur.rows = NotValidSkip(BeforeSkips.rows)
           /\ tf_cur.columns = BeforeSkips.columns
    /\ (tf_pc = "skips" /\ ~Removing) => tf_cur = BeforeSkips
    /\ (Done /\ Removing) =>
           tf_cur.rows =
               NotValidSkip(groupby_and_aggregate(
                   BeforeSkips, tf_args.selected_var, tf_args.groupby_var,
                   tf_args.weighted).rows)

\* Valid skips are removed from a table that has a valid skip followed by
\* another answer, and the result is aggregated.
C19_Witness ==
    /\ Done
    /\ Removing
    /\ Len(PassingRows) = 2
    /\ PassingRows[1][SelectedVar] = SKIP_CODE
    /\ PassingRows[2][SelectedVar] # SKIP_CODE
    /\ Len(tf_cur.rows) >= 1

-----------------------------------------------------------------------------
(* The field locator called on label blocks with Elements at the edges of   *)
(* its windows                                                              *)

MaxExtras == 2

\* The place of Element e in a sorted Unit u: after the Elements that are
\* above it or level with it and not to its right.
InsertSorted(u, e) ==
    LET before == {i \in 1..Len(u) :
                       \/ u[i].top < e.top
                       \/ u[i].top = e.top /\ u[i].left <= e.left}
        n == Cardinality(before)
    IN  SubSeq(u, 1, n) \o <<e>> \o SubSeq(u, n + 1, Len(u))

RECURSIVE InsertAll(_, _)
InsertAll(u, es) ==
    IF es = {} THEN u
    ELSE LET e == CHOOSE x \in es : TRUE
         IN  InsertAll(InsertSorted(u, e), es \ {e})

\* The label block of a variable with an answer section, the value of the
\* variable name left out, down to the heading of the answer table.
LabelBlock ==
    SelectSeq(MetaElements(PlainMeta), LAMBDA e : e.text # <<PlainMeta.name>>)
    \o <<HeadAns(TableTop)>>

ExtraElement(left, top) == Element(TEXT_TYPE, left, top, 40, LINE_HEIGHT, <<"extra">>)

\* Elements on the line of the variable name: at, between and beyond the
\* left edges of the three labels, and at and inside the vertical tolerance.
NameLineExtras ==
    {ExtraElement(left, MetaRowTop(0) + d) :
        left \in {36, 178, 300, 400}, d \in {0 - 5, 0, 5}}

\* Elements at and next to the edges of the windows of question_name and
\* concept, at and inside the edges of the band of the body text.
BodyExtras ==
    {ExtraElement(left, MetaRowTop(2) - d) :
        left \in {173, 174, 183}, d \in {40, 39, 11, 10, 9}}

RECURSIVE SetsUpTo(_, _)
\* The subsets of S of at most n members.
SetsUpTo(S, n) ==
    IF n = 0 THEN {{}}
    ELSE LET fewer == SetsUpTo(S, n - 1)
         IN  fewer \cup {t \cup {x} : t \in fewer, x \in S}

ExtraSets == SetsUpTo(NameLineExtras \cup BodyExtras, MaxExtras)

LocateUnits == {InsertAll(LabelBlock, es) : es \in ExtraSets}

\* The anchors the loop over the Units passes for each free-text field.
ThruSourceAnchors ==
    [question_name |-> <<Field_question_name, Field_concept>>,
     concept |-> <<Field_concept, Field_question_text>>,
     question_text |-> <<Field_question_text, Field_universe>>,
     universe |-> <<Field_universe, Field_note>>,
     note |-> <<Field_note, Field_source>>,
     source |-> <<Field_source, Field_answer_categories>>]
ThruSourceFields == DOMAIN ThruSourceAnchors

InitLocate ==
    /\ loc_unit \in LocateUnits
    /\ loc_call = <<>>
    /\ loc_res = <<>>
    /\ loc_pc = "new"
    /\ IdleExtractor
    /\ IdleLookup
    /\ IdleGroup
    /\ IdleTransform
    /\ IdleWindow

outsideLocate == <<extractorVars, lookupVars, groupVars, transformVars, windowVars>>

GetVariableName ==
    /\ loc_pc = "new"
    /\ loc_call' = [func |-> "get_variable_name", field |-> "variable_name"]
    /\ loc_res' = get_variable_name(loc_unit)
    /\ loc_pc' = "called"
    /\ UNCHANGED <<loc_unit, outsideLocate>>

GetLength ==
    /\ loc_pc = "new"
    /\ loc_call' = [func |-> "get_length", field |-> "length"]
    /\ loc_res' = get_length(loc_unit)
    /\ loc_pc' = "called"
    /\ UNCHANGED <<loc_unit, outsideLocate>>

GetPosition ==
    /\ loc_pc = "new"
    /\ loc_call' = [func |-> "get_position", field |-> "position"]
    /\ loc_res' = get_position(loc_unit)
    /\ loc_pc' = "called"
    /\ UNCHANGED <<loc_unit, outsideLocate>>

GetQuestionThruSource ==
    /\ loc_pc = "new"
    /\ \E f \in ThruSourceFields :
           /\ loc_call' = [func |-> "get_question_thru_source", field |-> f]
           /\ loc_res' = get_question_thru_source(
                             loc_unit, ThruSourceAnchors[f][1], ThruSourceAnchors[f][2])
    /\ loc_pc' = "called"
    /\ UNCHANGED <<loc_unit, outsideLocate>>

NextLocate == GetVariableName \/ GetLength \/ GetPosition \/ GetQuestionThruSource

SpecLocate == InitLocate /\ [][NextLocate]_vars

-----------------------------------------------------------------------------
(* Properties of the field locator, checked under SpecLocate                *)

LocCalled(func) == loc_pc = "called" /\ loc_call.func = func
AnchorElement(anchor) == loc_unit[get_elem_by_text(loc_unit, anchor)]
IsExtra(e) == e.text = <<"extra">>

\* The Elements strictly between the left edges of two anchors (of the
\* first anchor and the right margin when there is no second) and strictly
\* within 5 of the top of the first.
InlineCandidates(anchor, next) ==
    LET a == AnchorElement(anchor)
    IN  SelectSeq(loc_unit, LAMBDA e :
            /\ a.left < e.left
            /\ next # <<>> => e.left < AnchorElement(next).left
            /\ a.top - 5 < e.top
            /\ e.top < a.top + 5)

\* The call returned the text of the only such Element, or raised where
\* there is none or more than one.
LocatedByGeometry(anchor, next) ==
    LET c == InlineCandidates(anchor, next)
    IN  IF Len(c) = 1 THEN loc_res = Ret(c[1].text) ELSE loc_res.raised

\* The text that follows the colon of the anchor, stripped.
TextAfterAnchor(anchor) ==
    LET t == AnchorElement(anchor).text
        k == CHOOSE i \in 1..Len(t) : t[i] = COLON /\ \A j \in 1..(i - 1) : t[j] # COLON
    IN  Strip(SubSeq(t, k + 1, Len(t)))

Count(text, a) == Cardinality({i \in 1..Len(text) : text[i] = a})

\* The Elements of the Unit inside the window of a free-text field: top
\* strictly between the top of the from-anchor less 10 and the top of the
\* to-anchor less 10, left strictly between 173 and 183.
InWindow(f) ==
    LET from == AnchorElement(ThruSourceAnchors[f][1])
        to == AnchorElement(ThruSourceAnchors[f][2])
    IN  SelectSeq(loc_unit, LAMBDA e :
            /\ from.top - 10 < e.top
            /\ e.top < to.top - 10
            /\ 173 < e.left
            /\ e.left < 183)

\* C25: get_question_thru_source builds its result from exactly the Elements
\* inside the window and the band, in Unit order, joined with single spaces
\* (and then cleaned): an Element outside the window or the band adds
\* nothing to the result.
C25_ThruSourceWindow ==
    LocCalled("get_question_thru_source") =>
        LET sel == InWindow(loc_call.field)
            joined == Join([i \in 1..Len(sel) |-> sel[i].text], <<SP>>)
        IN  /\ ~loc_res.raised
            /\ loc_res.val =
                   Join(split_and_strip(
                            replace_characters(joined, FAULTY_CHARACTER_MAPPER), NL),
                        <<SP>>)
            /\ Count(loc_res.val, "extra") = Len(SelectSeq(sel, IsExtra))

\* The field question_name is extracted from a Unit with one Element on the
\* upper edge of its window and one just inside it: only the second is in
\* the result.
C25_Witness ==
    /\ LocCalled("get_question_thru_source")
    /\ loc_call.field = "question_name"
    /\ \E i, j \in 1..Len(loc_unit) :
           /\ IsExtra(loc_unit[i]) /\ IsExtra(loc_unit[j])
           /\ loc_unit[i].top = AnchorElement(Field_question_name).top - 10
           /\ loc_unit[j].top = AnchorElement(Field_question_name).top - 9
           /\ loc_unit[i].left = 174 /\ loc_unit[j].left = 174
    /\ Count(loc_res.val, "extra") = 1

\* The label anchors of the Unit are printed in the order of the fields.
AnchorsInOrder ==
    LET order == <<Field_question_name, Field_concept, Field_question_text,
                   Field_universe, Field_note, Field_source, Field_answer_categories>>
    IN  \A k \in 1..(Len(order) - 1) :
            AnchorElement(order[k]).top < AnchorElement(order[k + 1]).top

\* The set of Elements taken into field f.
FieldOut(f) ==
    LET o == thru_source_out(loc_unit, ThruSourceAnchors[f][1], ThruSourceAnchors[f][2])
    IN  {o[i] : i \in 1..Len(o)}

\* C30: in a Unit whose label anchors are in the order of the fields, no
\* Element is taken into more than one of the six free-text fields.
C30_WindowsDisjoint ==
    (LocCalled("get_question_thru_source") /\ AnchorsInOrder) =>
        LET outs == <<FieldOut("question_name"), FieldOut("concept"),
                      FieldOut("question_text"), FieldOut("universe"),
                      FieldOut("note"), FieldOut("source")>>
            taken(e) == {k \in 1..Len(outs) : e \in outs[k]}
        IN  \A i \in 1..Len(loc_unit) : Cardinality(taken(loc_unit[i])) <= 1

\* The Unit has an Element just above the lower edge of the window of
\* question_name and one just below it: the first is taken into
\* question_name, the second into concept.
C30_Witness ==
    /\ LocCalled("get_question_thru_source")
    /\ AnchorsInOrder
    /\ \E e \in FieldOut("question_name") :
           IsExtra(e) /\ e.top = AnchorElement(Field_concept).top - 11
    /\ \E e \in FieldOut("concept") :
           IsExtra(e) /\ e.top = AnchorElement(Field_concept).top - 9

=============================================================================
